---- MODULE Spec2Model ----
(***************************************************************************)
(* A model of the theme generator of src/substitutor.py: the forward       *)
(* transform (process_json_template: deletions, textual substitution of    *)
(* placeholders, overrides) and the reverse transform (extract_variables,  *)
(* handle_colors).                                                         *)
(*                                                                         *)
(* Text is a sequence of one-character strings, so that the regular        *)
(* expressions, str.split/replace and the json.dumps / json.loads round    *)
(* trip of the source are computed character by character.  A JSON / TOML  *)
(* value is a tagged record [t, v]; a table keeps its entries in insertion *)
(* order, as a Python dict does.                                           *)
(***************************************************************************)
EXTENDS Integers, Sequences, FiniteSets, TLC

(***************************************************************************)
(* Characters and character classes of the regular expressions             *)
(***************************************************************************)
Q == "\""
BSL == "\\"
Digits == {"0", "1", "2", "3", "4", "5", "6", "7", "8", "9"}
HexLetters == {"a", "b", "c", "d", "e", "f", "A", "B", "C", "D", "E", "F"}
Letters ==
  HexLetters \cup
  {"g", "h", "i", "j", "k", "l", "m", "n", "o", "p", "q", "r", "s", "t", "u",
   "v", "w", "x", "y", "z", "G", "H", "I", "J", "K", "L", "M", "N", "O", "P",
   "Q", "R", "S", "T", "U", "V", "W", "X", "Y", "Z"}
\* [a-zA-Z0-9]
AlnumChars == Letters \cup Digits
\* \w
WordChars == AlnumChars \cup {"_"}
\* [a-zA-Z0-9._]
NameChars == AlnumChars \cup {".", "_"}
\* [0-9a-fA-F]
HexChars == Digits \cup HexLetters
\* \s
SpaceChars == {" "}

(***************************************************************************)
(* Values                                                                  *)
(***************************************************************************)
Null == [t |-> "null", v |-> <<>>]
Bool(b) == [t |-> "bool", v |-> b]
Num(n) == [t |-> "num", v |-> n]
Str(s) == [t |-> "str", v |-> s]
List(xs) == [t |-> "list", v |-> xs]
Dict(ps) == [t |-> "dict", v |-> ps]
\* An exception that ends the run (TypeError, JSONDecodeError, ...).
Err(kind) == [t |-> "error", v |-> kind]
KV(k, val) == [k |-> k, val |-> val]

IsErr(x) == x.t = "error"
IsStr(x) == x.t = "str"
IsDict(x) == x.t = "dict"
IsList(x) == x.t = "list"

\* Python truthiness: None, False, 0, "", [] and {} are falsy.
Falsy(x) ==
  CASE x.t = "null" -> TRUE
    [] x.t = "bool" -> ~x.v
    [] x.t = "num" -> x.v = 0
    [] OTHER -> x.v = <<>>

(***************************************************************************)
(* Sequences as Python strings and lists                                   *)
(***************************************************************************)
MinOf(S) == CHOOSE m \in S : \A o \in S : m <= o
MaxOf(S) == CHOOSE m \in S : \A o \in S : m >= o

StartsWith(s, p) == Len(s) >= Len(p) /\ SubSeq(s, 1, Len(p)) = p
EndsWith(s, p) == Len(s) >= Len(p) /\ SubSeq(s, Len(s) - Len(p) + 1, Len(s)) = p
HasChar(s, c) == \E i \in 1..Len(s) : s[i] = c
Tail_(s, i) == SubSeq(s, i, Len(s))

\* str.find from position i (1-based); 0 when absent.
FindFrom(s, p, i) ==
  LET C == {j \in i..(Len(s) - Len(p) + 1) : SubSeq(s, j, j + Len(p) - 1) = p}
  IN IF C = {} THEN 0 ELSE MinOf(C)

RECURSIVE ReplaceAll(_, _, _)
\* str.replace(old, new): every non-overlapping occurrence, left to right.
ReplaceAll(s, old, new) ==
  LET j == FindFrom(s, old, 1)
  IN IF old = <<>> \/ j = 0 THEN s
     ELSE SubSeq(s, 1, j - 1) \o new \o ReplaceAll(Tail_(s, j + Len(old)), old, new)

RECURSIVE Split(_, _)
\* str.split(c) on a one-character separator.
Split(s, c) ==
  LET j == FindFrom(s, <<c>>, 1)
  IN IF j = 0 THEN <<s>>
     ELSE <<SubSeq(s, 1, j - 1)>> \o Split(Tail_(s, j + 1), c)

RECURSIVE Strip(_)
\* str.strip()
Strip(s) ==
  IF s # <<>> /\ s[1] \in SpaceChars THEN Strip(Tail(s))
  ELSE IF s # <<>> /\ s[Len(s)] \in SpaceChars THEN Strip(SubSeq(s, 1, Len(s) - 1))
  ELSE s

\* str.isdigit()
IsDigitStr(s) == s # <<>> /\ \A i \in 1..Len(s) : s[i] \in Digits

DigitVal(c) ==
  CASE c = "0" -> 0 [] c = "1" -> 1 [] c = "2" -> 2 [] c = "3" -> 3 [] c = "4" -> 4
    [] c = "5" -> 5 [] c = "6" -> 6 [] c = "7" -> 7 [] c = "8" -> 8 [] OTHER -> 9
DigitChar(d) == CHOOSE c \in Digits : DigitVal(c) = d

RECURSIVE TextToNat(_)
\* int(s) of a digit string
TextToNat(s) ==
  IF s = <<>> THEN 0
  ELSE 10 * TextToNat(SubSeq(s, 1, Len(s) - 1)) + DigitVal(s[Len(s)])

RECURSIVE NatToText(_)
\* str(n) of a natural number
NatToText(n) ==
  IF n < 10 THEN <<DigitChar(n)>>
  ELSE NatToText(n \div 10) \o <<DigitChar(n % 10)>>

(***************************************************************************)
(* Tables (ordered, keys unique)                                           *)
(***************************************************************************)
KeyIndex(ps, k) ==
  LET C == {i \in 1..Len(ps) : ps[i].k = k} IN IF C = {} THEN 0 ELSE MinOf(C)
HasKey(d, k) == KeyIndex(d.v, k) # 0
Get(d, k) == d.v[KeyIndex(d.v, k)].val
Keys(d) == [i \in 1..Len(d.v) |-> d.v[i].k]
KeySet(d) == {d.v[i].k : i \in 1..Len(d.v)}
\* d[k] = val: an existing key keeps its place, a new key goes last.
Put(d, k, val) ==
  LET i == KeyIndex(d.v, k)
  IN IF i = 0 THEN [d EXCEPT !.v = Append(@, KV(k, val))]
     ELSE [d EXCEPT !.v[i] = KV(k, val)]
\* del d[k]
Del(d, k) ==
  LET i == KeyIndex(d.v, k)
  IN [d EXCEPT !.v = SubSeq(@, 1, i - 1) \o SubSeq(@, i + 1, Len(@))]

(***************************************************************************)
(* json.dumps (separators ", " and ": ")                                   *)
(***************************************************************************)
RECURSIVE EscapeText(_)
EscapeText(s) ==
  IF s = <<>> THEN <<>>
  ELSE (IF s[1] \in {Q, BSL} THEN <<BSL, s[1]>> ELSE <<s[1]>>) \o EscapeText(Tail(s))

DumpsStr(s) == <<Q>> \o EscapeText(s) \o <<Q>>

RECURSIVE Dumps(_)
RECURSIVE DumpsItems(_)
RECURSIVE DumpsMembers(_)
Dumps(x) ==
  CASE x.t = "null" -> <<"n", "u", "l", "l">>
    [] x.t = "bool" -> IF x.v THEN <<"t", "r", "u", "e">> ELSE <<"f", "a", "l", "s", "e">>
    [] x.t = "num" -> NatToText(x.v)
    [] x.t = "str" -> DumpsStr(x.v)
    [] x.t = "list" -> <<"[">> \o DumpsItems(x.v) \o <<"]">>
    [] OTHER -> <<"{">> \o DumpsMembers(x.v) \o <<"}">>
DumpsItems(xs) ==
  IF xs = <<>> THEN <<>>
  ELSE IF Len(xs) = 1 THEN Dumps(xs[1])
  ELSE Dumps(xs[1]) \o <<",", " ">> \o DumpsItems(Tail(xs))
DumpsMembers(ps) ==
  IF ps = <<>> THEN <<>>
  ELSE LET one == DumpsStr(ps[1].k) \o <<":", " ">> \o Dumps(ps[1].val)
       IN IF Len(ps) = 1 THEN one ELSE one \o <<",", " ">> \o DumpsMembers(Tail(ps))

(***************************************************************************)
(* json.loads                                                              *)
(***************************************************************************)
PFail == [ok |-> FALSE, val |-> Null, next |-> 0]
POk(val, next) == [ok |-> TRUE, val |-> val, next |-> next]

RECURSIVE SkipWs(_, _)
SkipWs(s, i) == IF i <= Len(s) /\ s[i] \in SpaceChars THEN SkipWs(s, i + 1) ELSE i

RECURSIVE ParseStrBody(_, _, _)
\* The characters of a string literal from position i to its closing quote.
ParseStrBody(s, i, acc) ==
  IF i > Len(s) THEN PFail
  ELSE IF s[i] = Q THEN POk(Str(acc), i + 1)
  ELSE IF s[i] = BSL
       THEN IF i + 1 <= Len(s) /\ s[i + 1] \in {Q, BSL}
            THEN ParseStrBody(s, i + 2, Append(acc, s[i + 1]))
            ELSE PFail
  ELSE ParseStrBody(s, i + 1, Append(acc, s[i]))

RECURSIVE DigitsEnd(_, _)
DigitsEnd(s, i) == IF i <= Len(s) /\ s[i] \in Digits THEN DigitsEnd(s, i + 1) ELSE i

IsAt(s, i, p) == i + Len(p) - 1 <= Len(s) /\ SubSeq(s, i, i + Len(p) - 1) = p

RECURSIVE ParseValue(_, _)
RECURSIVE ParseItems(_, _, _)
RECURSIVE ParseMembers(_, _, _)
ParseValue(s, i0) ==
  LET i == SkipWs(s, i0)
  IN IF i > Len(s) THEN PFail
     ELSE IF s[i] = Q THEN ParseStrBody(s, i + 1, <<>>)
     ELSE IF s[i] \in Digits
          THEN LET e == DigitsEnd(s, i)
               IN IF s[i] = "0" /\ e > i + 1 THEN POk(Num(0), i + 1)
                  ELSE POk(Num(TextToNat(SubSeq(s, i, e - 1))), e)
     ELSE IF IsAt(s, i, <<"n", "u", "l", "l">>) THEN POk(Null, i + 4)
     ELSE IF IsAt(s, i, <<"t", "r", "u", "e">>) THEN POk(Bool(TRUE), i + 4)
     ELSE IF IsAt(s, i, <<"f", "a", "l", "s", "e">>) THEN POk(Bool(FALSE), i + 5)
     ELSE IF s[i] = "["
          THEN LET j == SkipWs(s, i + 1)
               IN IF j <= Len(s) /\ s[j] = "]" THEN POk(List(<<>>), j + 1)
                  ELSE ParseItems(s, j, <<>>)
     ELSE IF s[i] = "{"
          THEN LET j == SkipWs(s, i + 1)
               IN IF j <= Len(s) /\ s[j] = "}" THEN POk(Dict(<<>>), j + 1)
                  ELSE ParseMembers(s, j, Dict(<<>>))
     ELSE PFail
ParseItems(s, i, acc) ==
  LET r == ParseValue(s, i)
      j == SkipWs(s, r.next)
  IN IF ~r.ok \/ j > Len(s) THEN PFail
     ELSE IF s[j] = "]" THEN POk(List(Append(acc, r.val)), j + 1)
     ELSE IF s[j] = "," THEN ParseItems(s, j + 1, Append(acc, r.val))
     ELSE PFail
ParseMembers(s, i0, acc) ==
  LET i == SkipWs(s, i0)
      key == IF i <= Len(s) /\ s[i] = Q THEN ParseStrBody(s, i + 1, <<>>) ELSE PFail
      c == SkipWs(s, key.next)
      r == IF key.ok /\ c <= Len(s) /\ s[c] = ":" THEN ParseValue(s, c + 1) ELSE PFail
      j == SkipWs(s, r.next)
  IN IF ~r.ok \/ j > Len(s) THEN PFail
     ELSE IF s[j] = "}" THEN POk(Put(acc, key.val.v, r.val), j + 1)
     ELSE IF s[j] = "," THEN ParseMembers(s, j + 1, Put(acc, key.val.v, r.val))
     ELSE PFail

\* json.loads(text): the value, or JSONDecodeError.
Loads(s) ==
  LET r == ParseValue(s, 1)
  IN IF r.ok /\ SkipWs(s, r.next) > Len(s) THEN r.val ELSE Err("JSONDecodeError")

(***************************************************************************)
(* Bounds                                                                  *)
(***************************************************************************)
\* Nesting allowed to the mutual recursion of substitute_variables and to
\* the reference-following loop of resolve_variable; bindings that need
\* more are cyclic, and the source then never returns.
MaxDepth == 4

(***************************************************************************)
(* resolve_variable                                                        *)
(***************************************************************************)
\* re.search(ALPHA_PATTERN, s): the position of the first "..XX", or 0.
AlphaIndex(s) ==
  LET C == {j \in 1..(Len(s) - 3) :
              /\ s[j] = "." /\ s[j + 1] = "."
              /\ s[j + 2] \in AlnumChars /\ s[j + 3] \in AlnumChars}
  IN IF C = {} THEN 0 ELSE MinOf(C)

RECURSIVE WalkParts(_, _)
\* The loop over parts: a missing key, or a non-table on the way, gives None.
WalkParts(parts, current) ==
  IF parts = <<>> THEN current
  ELSE IF IsDict(current) /\ HasKey(current, parts[1])
       THEN WalkParts(Tail(parts), Get(current, parts[1]))
  ELSE Null

\* resolve_variable(var_name, toml_data, had_alpha=True)
WalkPath(var_name, toml_data) == WalkParts(Split(var_name, "."), toml_data)

RECURSIVE FollowRefs(_, _, _)
\* while isinstance(value, str) and value.startswith('$'): value = resolve(value[1:])
FollowRefs(value, toml_data, fuel) ==
  IF IsStr(value) /\ StartsWith(value.v, <<"$">>)
  THEN IF fuel = 0 THEN Err("NoTermination")
       ELSE FollowRefs(WalkPath(Tail(value.v), toml_data), toml_data, fuel - 1)
  ELSE value

\* The alpha branch that drops the "not value" test: a mutant of AppendAlpha.
AppendAlphaAlways(value, alpha) ==
  IF IsErr(value) THEN value
  ELSE IF ~IsStr(value) THEN Str(alpha)
  ELSE IF AlphaIndex(value.v) # 0 THEN value
  ELSE Str(value.v \o alpha)

\* Lines 45-48: what the alpha branch returns for the resolved value.
AppendAlpha(value, alpha) ==
  IF IsErr(value) THEN value
  ELSE IF Falsy(value) THEN Null
  ELSE IF ~IsStr(value) THEN Err("TypeError")
  ELSE IF AlphaIndex(value.v) # 0 THEN value
  ELSE Str(value.v \o alpha)

\* resolve_variable(var_name, toml_data)
ResolveVariable(var_name, toml_data) ==
  LET a == AlphaIndex(var_name)
      alpha == SubSeq(var_name, a + 2, a + 3)
  IN IF a # 0
     THEN AppendAlpha(
            FollowRefs(WalkPath(ReplaceAll(var_name, <<".", ".">> \o alpha, <<>>), toml_data),
                       toml_data, MaxDepth),
            alpha)
     ELSE WalkPath(var_name, toml_data)

(***************************************************************************)
(* substitute_variables                                                    *)
(***************************************************************************)
TOk(txt) == [err |-> "", txt |-> txt]
TErr(kind) == [err |-> kind, txt |-> <<>>]

RECURSIVE NameEnd(_, _)
\* The position after the run [a-zA-Z0-9._]* that starts at i.
NameEnd(s, i) == IF i <= Len(s) /\ s[i] \in NameChars THEN NameEnd(s, i + 1) ELSE i

\* \$[a-zA-Z0-9._]+ at position i
NameAt(s, i) == i <= Len(s) /\ s[i] = "$" /\ NameEnd(s, i + 1) > i + 1

RECURSIVE ChainGroups(_, _)
\* (?:\s*,\s*\$[a-zA-Z0-9._]+)* from position j: the position after the last group.
ChainGroups(s, j) ==
  LET a == SkipWs(s, j)
      b == SkipWs(s, a + 1)
  IN IF a <= Len(s) /\ s[a] = "," /\ NameAt(s, b)
     THEN ChainGroups(s, NameEnd(s, b + 1))
     ELSE j

\* REC_PATTERN at position i: the position after the match, or 0.
RecMatchEnd(s, i) == IF NameAt(s, i) THEN ChainGroups(s, NameEnd(s, i + 1)) ELSE 0

\* FILE_PATTERN at position i: the position after the closing quote, or 0.
FileMatchEnd(s, i) ==
  LET e == RecMatchEnd(s, i + 1)
  IN IF s[i] = Q /\ e # 0 /\ e <= Len(s) /\ s[e] = Q THEN e + 1 ELSE 0

RECURSIVE MapStrip(_)
MapStrip(xs) == IF xs = <<>> THEN <<>> ELSE <<Strip(xs[1])>> \o MapStrip(Tail(xs))

\* The candidate after the last-resort step of lines 69-72.
ParentFallback(value, var_name, var_names, toml_data) ==
  IF value = Null /\ var_name = var_names[Len(var_names)]
  THEN ResolveVariable(Split(var_name, ".")[1], toml_data)
  ELSE value

\* Lines 74-75 alone: a table is not skipped. A mutant of Skipped.
SkippedNullOrBool(value) == value.t \in {"null", "bool"}

\* Lines 74-79: the candidate is skipped.
Skipped(value) == value.t \in {"null", "bool", "dict"}

RECURSIVE SubstituteVariables(_, _, _, _, _)
RECURSIVE Replacer(_, _, _, _, _)
RECURSIVE SubstituteItems(_, _, _)

\* The list comprehension of lines 83-86; an item that is not a string
\* makes re.sub raise TypeError.
SubstituteItems(items, toml_data, fuel) ==
  IF items = <<>> THEN [err |-> "", vals |-> <<>>]
  ELSE LET one == IF ~IsStr(items[1]) THEN TErr("TypeError")
                  ELSE IF fuel = 0 THEN TErr("RecursionError")
                  ELSE SubstituteVariables(items[1].v, toml_data, TRUE, FALSE, fuel - 1)
           rest == SubstituteItems(Tail(items), toml_data, fuel)
       IN IF one.err # "" THEN [err |-> one.err, vals |-> <<>>]
          ELSE IF rest.err # "" THEN rest
          ELSE [err |-> "", vals |-> <<Str(one.txt)>> \o rest.vals]

\* replacer(match), from candidate k on: the text that replaces the match.
Replacer(var_names, k, toml_data, quotes, fuel) ==
  IF k > Len(var_names) THEN TOk(Dumps(Null))
  ELSE
    LET var_name == IF StartsWith(var_names[k], <<"$">>) THEN Tail(var_names[k])
                    ELSE var_names[k]
        first == ResolveVariable(var_name, toml_data)
        value == IF IsErr(first) THEN first
                 ELSE ParentFallback(first, var_name, var_names, toml_data)
    IN IF IsErr(value) THEN TErr(value.v)
       ELSE IF Skipped(value) THEN Replacer(var_names, k + 1, toml_data, quotes, fuel)
       ELSE IF IsList(value)
            THEN LET items == SubstituteItems(value.v, toml_data, fuel)
                 IN IF items.err # "" THEN TErr(items.err)
                    ELSE TOk(Dumps(List(items.vals)))
       ELSE IF IsStr(value) /\ HasChar(value.v, "$")
            THEN IF fuel = 0 THEN TErr("RecursionError")
                 ELSE SubstituteVariables(value.v, toml_data, TRUE, quotes, fuel - 1)
       ELSE IF ~IsStr(value) THEN TOk(Dumps(value))
       ELSE TOk(IF quotes THEN Dumps(value) ELSE value.v)

\* pattern.match(text, i): the position after the match at i, or 0.
MatchEnd(text, i, recursive) ==
  IF recursive THEN RecMatchEnd(text, i) ELSE FileMatchEnd(text, i)

\* re.sub(pattern, replacer, text): the leftmost match is replaced, and the
\* scan goes on after it.
SubstituteVariables(text, toml_data, recursive, quotes, fuel) ==
  LET C == {i \in 1..Len(text) : MatchEnd(text, i, recursive) # 0}
  IN IF C = {} THEN TOk(text)
     ELSE
       LET i == MinOf(C)
           e == MatchEnd(text, i, recursive)
           group == IF recursive THEN SubSeq(text, i, e - 1)
                    ELSE SubSeq(text, i + 1, e - 2)
           here == Replacer(MapStrip(Split(group, ",")), 1, toml_data, quotes, fuel)
           rest == SubstituteVariables(Tail_(text, e), toml_data, recursive, quotes, fuel)
       IN IF here.err # "" THEN here
          ELSE IF rest.err # "" THEN rest
          ELSE TOk(SubSeq(text, 1, i - 1) \o here.txt \o rest.txt)

\* json.loads(substitute_variables(json.dumps(theme), toml_data)), line 134
Materialize(theme, toml_data) ==
  LET r == SubstituteVariables(Dumps(theme), toml_data, FALSE, TRUE, MaxDepth)
  IN IF r.err # "" THEN Err(r.err) ELSE Loads(r.txt)

(***************************************************************************)
(* Containers addressed by a path of segments (Str: key, Num: index)       *)
(***************************************************************************)
\* An integer used as a table key (current[0] = None on a dict) is a key of
\* its own, equal to no string key.
DKey(seg) == IF seg.t = "num" THEN <<"int">> \o NatToText(seg.v) ELSE seg.v

\* Python ==, where True == 1 and False == 0.
PyEq(a, b) ==
  \/ a = b
  \/ a.t = "bool" /\ b.t = "num" /\ b.v = (IF a.v THEN 1 ELSE 0)
  \/ a.t = "num" /\ b.t = "bool" /\ a.v = (IF b.v THEN 1 ELSE 0)

\* seg in container: key membership for a table, element membership for a list.
In(seg, c) ==
  IF IsDict(c) THEN HasKey(c, DKey(seg))
  ELSE \E i \in 1..Len(c.v) : PyEq(c.v[i], seg)

\* container[seg], for a key or index that exists
Child(c, seg) == IF IsDict(c) THEN Get(c, DKey(seg)) ELSE c.v[seg.v + 1]

RECURSIVE GetAt(_, _)
GetAt(x, path) == IF path = <<>> THEN x ELSE GetAt(Child(x, path[1]), Tail(path))

RECURSIVE SetAt(_, _, _)
\* The tree after  container-at-path[..-1][path[-1]] = val
SetAt(x, path, val) ==
  IF path = <<>> THEN val
  ELSE IF IsDict(x)
       THEN Put(x, DKey(path[1]),
                IF Len(path) = 1 THEN val ELSE SetAt(Child(x, path[1]), Tail(path), val))
  ELSE [x EXCEPT !.v[path[1].v + 1] = SetAt(@, Tail(path), val)]

\* The tree after  container-at-path.append(val)
AppendAt(x, path, val) == SetAt(x, path, [GetAt(x, path) EXCEPT !.v = Append(@, val)])

RECURSIVE DelAt(_, _)
\* The tree after  del container-at-path[..-1][path[-1]]
DelAt(x, path) ==
  IF Len(path) = 1
  THEN IF IsDict(x) THEN Del(x, DKey(path[1]))
       ELSE List(SubSeq(x.v, 1, path[1].v) \o SubSeq(x.v, path[1].v + 2, Len(x.v)))
  ELSE SetAt(x, <<path[1]>>, DelAt(Child(x, path[1]), Tail(path)))

(***************************************************************************)
(* parse_full_key                                                          *)
(***************************************************************************)
RECURSIVE CloseBracket(_, _, _)
\* while not part.endswith(']'): i += 1; part += '.' + parts[i]
CloseBracket(parts, i, part) ==
  IF EndsWith(part, <<"]">>) THEN [ok |-> TRUE, i |-> i, part |-> part]
  ELSE IF i + 1 > Len(parts) THEN [ok |-> FALSE, i |-> i, part |-> part]
  ELSE CloseBracket(parts, i + 1, part \o <<".">> \o parts[i + 1])

RECURSIVE ParseParts(_, _)
ParseParts(parts, i) ==
  IF i > Len(parts) THEN [ok |-> TRUE, keys |-> <<>>]
  ELSE IF StartsWith(parts[i], <<"[">>)
       THEN LET c == CloseBracket(parts, i, parts[i])
                rest == ParseParts(parts, c.i + 1)
            IN IF ~c.ok \/ ~rest.ok THEN [ok |-> FALSE, keys |-> <<>>]
               ELSE [ok |-> TRUE,
                     keys |-> <<Str(SubSeq(c.part, 2, Len(c.part) - 1))>> \o rest.keys]
  ELSE LET rest == ParseParts(parts, i + 1)
           key == IF IsDigitStr(parts[i]) THEN Num(TextToNat(parts[i])) ELSE Str(parts[i])
       IN IF ~rest.ok THEN rest ELSE [ok |-> TRUE, keys |-> <<key>> \o rest.keys]

\* parse_full_key(full_key): the segments; not ok when parts[i] raises IndexError.
ParseFullKey(full_key) == ParseParts(Split(full_key, "."), 1)

(***************************************************************************)
(* Deletions (process_json_template, lines 119-129)                        *)
(***************************************************************************)
\* "key in val" of the deletion walk: membership in a table or list, substring
\* in a string; None, a number or a boolean raise TypeError.
DelIn(seg, val) ==
  CASE val.t \in {"dict", "list"} -> IF In(seg, val) THEN "yes" ELSE "no"
    [] val.t = "str" ->
         IF seg.t # "str" THEN "TypeError"
         ELSE IF FindFrom(val.v, seg.v, 1) # 0 \/ seg.v = <<>> THEN "yes" ELSE "no"
    [] OTHER -> "TypeError"

\* val[key] for a key that passed "key in val"
DelIndexable(seg, val) ==
  \/ val.t = "dict"
  \/ val.t = "list" /\ seg.t = "num" /\ seg.v < Len(val.v)

RECURSIVE DeleteWalk(_, _, _, _)
\* The walk over keys[:-1] and the final del: at is the path of val in theme.
DeleteWalk(theme, keys, i, at) ==
  LET val == GetAt(theme, at)
      isin == DelIn(keys[i], val)
  IN IF isin = "TypeError" THEN Err("TypeError")
     ELSE IF i < Len(keys)
          THEN IF isin = "no" THEN DeleteWalk(theme, keys, i + 1, at)
               ELSE IF ~DelIndexable(keys[i], val)
                    THEN Err(IF val.t = "list" /\ keys[i].t = "num" THEN "IndexError"
                             ELSE "TypeError")
               ELSE DeleteWalk(theme, keys, i + 1, Append(at, keys[i]))
     ELSE IF isin = "no" THEN theme
     ELSE IF ~DelIndexable(keys[i], val)
          THEN Err(IF val.t = "list" /\ keys[i].t = "num" THEN "IndexError" ELSE "TypeError")
     ELSE DelAt(theme, Append(at, keys[i]))

\* One entry of deletions.keys applied to theme; an entry that is no string
\* has no split.
DeleteKey(theme, full_key) ==
  IF ~IsStr(full_key) THEN Err("AttributeError")
  ELSE LET p == ParseFullKey(full_key.v)
       IN IF ~p.ok THEN Err("IndexError") ELSE DeleteWalk(theme, p.keys, 1, <<>>)

RECURSIVE DeleteKeys(_, _)
DeleteKeys(theme, full_keys) ==
  IF full_keys = <<>> \/ IsErr(theme) THEN theme
  ELSE DeleteKeys(DeleteKey(theme, full_keys[1]), Tail(full_keys))

K_deletions == <<"d", "e", "l", "e", "t", "i", "o", "n", "s">>
K_keys == <<"k", "e", "y", "s">>

\* Lines 120-129: the guard on toml_data['deletions']['keys'] and the loop,
\* deletions being a table. The loop takes the items of a list, the
\* characters of a string, the keys of a table.
ApplyDeletions(theme, toml_data) ==
  LET keys == Get(Get(toml_data, K_deletions), K_keys)
  IN IF /\ HasKey(toml_data, K_deletions)
        /\ IsDict(Get(toml_data, K_deletions))
        /\ HasKey(Get(toml_data, K_deletions), K_keys)
        /\ ~Falsy(keys)
     THEN IF IsList(keys) THEN DeleteKeys(theme, keys.v)
          ELSE IF IsStr(keys)
               THEN DeleteKeys(theme, [i \in 1..Len(keys.v) |-> Str(<<keys.v[i]>>)])
          ELSE IF IsDict(keys)
               THEN DeleteKeys(theme, [i \in 1..Len(keys.v) |-> Str(keys.v[i].k)])
          ELSE Err("TypeError")
     ELSE theme

\* Op applied to the value of x, x being evaluated once.
Bind(x, Op(_)) == CHOOSE r \in {Op(y) : y \in {x}} : TRUE

(***************************************************************************)
(* Tables and lists of the binding document held by reference              *)
(***************************************************************************)
RECURSIVE Held(_, _)
\* load_toml creates the tables and lists of the binding document (line 116).
\* The code stores them in the theme without copying them (lines 58, 181,
\* 222, 260, 285): the field id names each object by the place it was created
\* at, and every value that carries the same id is that one object.
Held(current, path) ==
  IF IsDict(current)
  THEN [t |-> "dict",
        v |-> [i \in 1..Len(current.v) |->
                 KV(current.v[i].k,
                    Held(current.v[i].val, Append(path, Str(current.v[i].k))))],
        id |-> path]
  ELSE IF IsList(current)
       THEN [t |-> "list",
             v |-> [i \in 1..Len(current.v) |->
                      Held(current.v[i], Append(path, Num(i - 1)))],
             id |-> path]
  ELSE current

RECURSIVE HeldIn(_)
\* The objects of the binding document found in a tree, each with the value
\* the tree shows for it there.
HeldIn(x) ==
  LET below == IF IsDict(x) THEN UNION {HeldIn(x.v[i].val) : i \in 1..Len(x.v)}
               ELSE IF IsList(x) THEN UNION {HeldIn(x.v[i]) : i \in 1..Len(x.v)}
               ELSE {}
  IN IF "id" \in DOMAIN x THEN {x} \cup below ELSE below

RECURSIVE Shown(_, _)
\* The tree x where every place that holds one of the objects objs shows the
\* value objs gives for it.
Shown(x, objs) ==
  IF "id" \in DOMAIN x /\ \E o \in objs : o.id = x.id
  THEN CHOOSE o \in objs : o.id = x.id
  ELSE IF IsDict(x)
       THEN [x EXCEPT !.v = [i \in 1..Len(x.v) |-> KV(x.v[i].k, Shown(x.v[i].val, objs))]]
  ELSE IF IsList(x) THEN [x EXCEPT !.v = [i \in 1..Len(x.v) |-> Shown(x.v[i], objs)]]
  ELSE x

\* An assignment, update or append changes the object in place (lines 181,
\* 222, 250, 260, 285): what one step wrote to an object under one key is seen
\* under every key that holds the object.
InPlace(before, after) ==
  IF IsErr(after) THEN after
  ELSE LET old == HeldIn(before)
       IN Shown(after, {o \in HeldIn(after) :
                          (\E b \in old : b.id = o.id) /\ o \notin old})

\* toml_data after a step that left the theme as it is given: the objects the
\* theme holds are the objects of toml_data.
Reflected(toml_data, theme) ==
  IF IsErr(theme) THEN toml_data ELSE Shown(toml_data, HeldIn(theme))

\* A value read from toml_data now (an item of overrides.items()).
Current(value, toml_data) == Shown(value, HeldIn(toml_data))

\* The theme and the binding document as a call leaves them.
After(theme, toml_data) == [theme |-> theme, toml_data |-> toml_data]

(***************************************************************************)
(* apply_direct_overrides                                                  *)
(***************************************************************************)
\* Lines 219-220: a string value holding "$" is resolved, first character dropped.
ResolveDirectValue(override_value, toml_data) ==
  IF IsStr(override_value) /\ HasChar(override_value.v, "$")
  THEN ResolveVariable(Tail(override_value.v), toml_data)
  ELSE override_value

\* "next and next.isdigit()": an int segment has no isdigit.
NextIsDigit(nxt) ==
  IF Falsy(nxt) THEN "no"
  ELSE IF nxt.t = "num" THEN "AttributeError"
  ELSE IF IsDigitStr(nxt.v) THEN "yes" ELSE "no"

RECURSIVE GrowList(_, _, _, _, _)
\* while len(current) <= part: current.append(...), lines 243-252
GrowList(theme, at, part, nxt, override_value) ==
  LET cur == GetAt(theme, at)
      d == NextIsDigit(nxt)
  IN IF Len(cur.v) > part.v THEN theme
     ELSE IF d = "AttributeError" THEN Err(d)
     ELSE GrowList(AppendAt(theme, at,
                     IF d = "yes" THEN List(<<>>)
                     ELSE IF part.v = Len(cur.v) THEN Dict(<<>>)
                     ELSE override_value),
                   at, part, nxt, override_value)

\* Lines 234-252: the container current (at path at) made to hold part.
EnsurePart(theme, at, part, nxt, last, override_value) ==
  LET cur == GetAt(theme, at)
  IN IF IsDict(cur) /\ ~In(part, cur)
     THEN IF last THEN SetAt(theme, Append(at, part), Null)
          ELSE IF nxt.t = "num" THEN Err("AttributeError")
          ELSE SetAt(theme, Append(at, part),
                     IF IsDigitStr(nxt.v) THEN List(<<>>) ELSE Dict(<<>>))
     ELSE IF IsList(cur)
          THEN IF part.t # "num" THEN Err("TypeError")
               ELSE IF Len(cur.v) <= part.v
                    THEN GrowList(theme, at, part, nxt, override_value)
               ELSE theme
     ELSE theme

RECURSIVE DirectWalk(_, _, _, _, _)
\* The for loop of lines 232-257 from segment i: the theme, the path of
\* current and the segment the loop stopped at.
DirectWalk(theme, parts, i, at, override_value) ==
  LET part == parts[i]
      last == i = Len(parts)
      nxt == IF last THEN Null ELSE parts[i + 1]
      t1 == EnsurePart(theme, at, part, nxt, last, override_value)
      child == Child(GetAt(t1, at), part)
  IN IF IsErr(t1) THEN [theme |-> t1, at |-> at, part |-> part]
     ELSE IF child.t \in {"list", "dict"}
          THEN IF last THEN [theme |-> t1, at |-> Append(at, part), part |-> part]
               ELSE DirectWalk(t1, parts, i + 1, Append(at, part), override_value)
     ELSE [theme |-> t1, at |-> at, part |-> part]

\* Lines 259-272: the final assignment.
DirectAssign(theme, at, part, override_value) ==
  LET value == IF override_value = Bool(FALSE) THEN Null ELSE override_value
      cur == GetAt(theme, at)
  IN IF ~Falsy(part) /\ In(part, cur)
     THEN IF IsDict(cur) THEN SetAt(theme, Append(at, part), value)
          ELSE IF part.t # "num" THEN Err("TypeError")
          ELSE IF part.v >= Len(cur.v) THEN Err("IndexError")
          ELSE SetAt(theme, Append(at, part), value)
     ELSE IF IsList(cur) /\ part.t = "num"
          THEN IF part.v > Len(cur.v) THEN AppendAt(theme, at, value)
               ELSE IF part.v = Len(cur.v) THEN Err("IndexError")
               ELSE SetAt(theme, Append(at, part), value)
     ELSE theme

\* One iteration of the loop of line 218.
DirectOverride(theme, toml_data, override_key, raw_value) ==
  LET override_value == ResolveDirectValue(raw_value, toml_data)
      p == ParseFullKey(override_key)
      w == DirectWalk(theme, p.keys, 1, <<>>, override_value)
  IN IF IsErr(override_value) THEN override_value
     ELSE IF ~HasChar(override_key, ".") THEN Put(theme, override_key, override_value)
     ELSE IF ~p.ok THEN Err("IndexError")
     ELSE IF IsErr(w.theme) THEN w.theme
     ELSE DirectAssign(w.theme, w.at, w.part, override_value)

RECURSIVE DirectOverridesFrom(_, _, _, _)
DirectOverridesFrom(theme, toml_data, items, i) ==
  IF i > Len(items) \/ IsErr(theme) THEN After(theme, toml_data)
  ELSE Bind(InPlace(theme, DirectOverride(theme, toml_data, items[i].k,
                                          Current(items[i].val, toml_data))),
            LAMBDA t1 : DirectOverridesFrom(t1, Reflected(toml_data, t1), items, i + 1))

\* apply_direct_overrides(theme, toml_data, overrides)
ApplyDirectOverrides(theme, toml_data, overrides) ==
  IF ~IsDict(overrides) THEN After(Err("AttributeError"), toml_data)
  ELSE DirectOverridesFrom(theme, toml_data, overrides.v, 1)

(***************************************************************************)
(* Regular expressions: literals, escapes, \w, ".", "*", "^" and "$"       *)
(***************************************************************************)
\* The characters re.escape puts a backslash before.
ReSpecial ==
  {"(", ")", "[", "]", "{", "}", "?", "*", "+", "-", "|", "^", "$", BSL, ".", "&",
   "~", "#", " "}

RECURSIVE ReEscape(_)
ReEscape(s) ==
  IF s = <<>> THEN <<>>
  ELSE (IF s[1] \in ReSpecial THEN <<BSL, s[1]>> ELSE <<s[1]>>) \o ReEscape(Tail(s))

ReAtom(r, i) ==
  IF r[i] = BSL /\ i < Len(r)
  THEN [k |-> IF r[i + 1] = "w" THEN "word" ELSE "lit", c |-> r[i + 1], w |-> 2]
  ELSE IF r[i] = "." THEN [k |-> "any", c |-> ".", w |-> 1]
  ELSE IF r[i] = "^" THEN [k |-> "bol", c |-> "^", w |-> 1]
  ELSE IF r[i] = "$" THEN [k |-> "eol", c |-> "$", w |-> 1]
  ELSE [k |-> "lit", c |-> r[i], w |-> 1]

RECURSIVE ReTokens(_, _)
\* The pattern as a sequence of atoms, each with or without a star.
ReTokens(r, i) ==
  IF i > Len(r) THEN <<>>
  ELSE LET a == ReAtom(r, i)
           j == i + a.w
           star == j <= Len(r) /\ r[j] = "*"
       IN <<[k |-> a.k, c |-> a.c, star |-> star]>>
          \o ReTokens(r, IF star THEN j + 1 ELSE j)

AtomMatches(tk, c) ==
  CASE tk.k = "lit" -> c = tk.c
    [] tk.k = "word" -> c \in WordChars
    [] tk.k = "any" -> TRUE
    [] OTHER -> FALSE

RECURSIVE ReMatchFrom(_, _, _, _)
\* Whether toks[i..] matches a prefix of s[j..] (backtracking over the stars).
ReMatchFrom(toks, i, s, j) ==
  IF i > Len(toks) THEN TRUE
  ELSE LET tk == toks[i]
       IN CASE tk.k = "bol" -> j = 1 /\ ReMatchFrom(toks, i + 1, s, j)
            [] tk.k = "eol" -> j = Len(s) + 1 /\ ReMatchFrom(toks, i + 1, s, j)
            [] tk.star ->
                 \E n \in 0..(Len(s) - j + 1) :
                   /\ \A m \in j..(j + n - 1) : AtomMatches(tk, s[m])
                   /\ ReMatchFrom(toks, i + 1, s, j + n)
            [] OTHER ->
                 j <= Len(s) /\ AtomMatches(tk, s[j]) /\ ReMatchFrom(toks, i + 1, s, j + 1)

\* re.match(pattern, key): the pattern matches at the start of key.
ReMatch(pattern, key) == ReMatchFrom(ReTokens(pattern, 1), 1, key, 1)

(***************************************************************************)
(* Wildcard overrides: wildcard_to_regex, find_matching_keys,              *)
(* apply_overrides                                                         *)
(***************************************************************************)
\* Line 163 with ".*" in place of "\w*": a star that crosses segments.
StarAsAny(escaped_pattern) ==
  ReplaceAll(escaped_pattern, <<BSL, "*">>, <<".", "*">>)

\* Line 163: a remaining star stands for \w*.
StarAsWord(escaped_pattern) ==
  ReplaceAll(escaped_pattern, <<BSL, "*">>, <<BSL, "w", "*">>)

WildcardToRegex(pattern) ==
  LET e0 == ReEscape(pattern)
      e1 == ReplaceAll(e0, <<BSL, "*", BSL, "*", BSL, "*">>, <<".", "*">>)
      e2 == ReplaceAll(e1, <<BSL, ".", BSL, "*", BSL, "*">>, <<BSL, ".", ".", "*">>)
      e3 == ReplaceAll(e2, <<BSL, "*", BSL, "*", BSL, ".">>, <<".", "*", BSL, ".">>)
  IN <<"^">> \o StarAsWord(e3) \o <<"$">>

MatchWildcard(pattern, key) == ReMatch(WildcardToRegex(pattern), key)

\* re.match(pattern, key) takes no integer key (lines 164 and 284).
IntKey(key) == key # <<>> /\ key[1] = "int"

\* find_matching_keys(data, pattern): the positions of the matching keys.
FindMatchingKeys(data, pattern) ==
  {i \in 1..Len(data.v) : MatchWildcard(pattern, data.v[i].k)}

\* 'override_value and "$" in override_value' (lines 175 and 279):
\* "yes", "no", or the TypeError of "$" in <number>.
HasDollar(override_value) ==
  IF Falsy(override_value) THEN "no"
  ELSE CASE override_value.t = "str" ->
              IF HasChar(override_value.v, "$") THEN "yes" ELSE "no"
         [] override_value.t = "list" ->
              IF \E i \in 1..Len(override_value.v) : override_value.v[i] = Str(<<"$">>)
              THEN "yes" ELSE "no"
         [] override_value.t = "dict" ->
              IF HasKey(override_value, <<"$">>) THEN "yes" ELSE "no"
         [] OTHER -> "TypeError"

\* resolve_variable(override_value[1:], toml_data) of lines 176 and 280; a
\* list or table cut by [1:] is no variable name.
ResolveRef(override_value, toml_data) ==
  IF IsStr(override_value) THEN ResolveVariable(Tail(override_value.v), toml_data)
  ELSE Err("TypeError")

RECURSIVE UpdateDict(_, _)
\* dict.update
UpdateDict(d, ps) ==
  IF ps = <<>> THEN d ELSE UpdateDict(Put(d, ps[1].k, ps[1].val), Tail(ps))

\* Lines 180-190 for one matching key: the new value of theme[key].
WildcardValue(old, override_value) ==
  IF IsDict(override_value)
  THEN IF IsDict(old) THEN UpdateDict(old, override_value.v) ELSE Err("AttributeError")
  ELSE IF IsList(override_value) THEN old
  ELSE IF old.t = override_value.t \/ old = Null THEN override_value
  ELSE IF Falsy(override_value) THEN Null
  ELSE old

RECURSIVE WildcardAssign(_, _, _)
WildcardAssign(theme, idxs, override_value) ==
  IF idxs = {} \/ IsErr(theme) THEN theme
  ELSE LET i == MinOf(idxs)
           nv == WildcardValue(theme.v[i].val, override_value)
       IN IF IsErr(nv) THEN nv
          ELSE WildcardAssign(InPlace(theme, [theme EXCEPT !.v[i] = KV(@.k, nv)]),
                              idxs \ {i}, override_value)

\* One iteration of the loop of line 174.
WildcardOverride(theme, toml_data, override_key, raw_value) ==
  LET d == HasDollar(raw_value)
      override_value == IF d = "yes" THEN ResolveRef(raw_value, toml_data) ELSE raw_value
  IN IF d = "TypeError" THEN Err(d)
     ELSE IF IsErr(override_value) THEN override_value
     ELSE IF ~IsDict(theme) THEN Err("AttributeError")
     ELSE IF \E i \in 1..Len(theme.v) : IntKey(theme.v[i].k) THEN Err("TypeError")
     ELSE WildcardAssign(theme, FindMatchingKeys(theme, override_key), override_value)

\* The theme after the call changed the table it was given, the one at path.
OnSubTable(theme, path, applied) ==
  IF IsErr(applied) THEN applied ELSE InPlace(theme, SetAt(theme, path, applied))

RECURSIVE WildcardOverridesFrom(_, _, _, _, _)
WildcardOverridesFrom(theme, path, toml_data, items, i) ==
  IF i > Len(items) \/ IsErr(theme) THEN After(theme, toml_data)
  ELSE Bind(OnSubTable(theme, path,
                       WildcardOverride(GetAt(theme, path), toml_data, items[i].k,
                                        Current(items[i].val, toml_data))),
            LAMBDA t1 : WildcardOverridesFrom(t1, path, Reflected(toml_data, t1), items, i + 1))

\* apply_overrides(theme, toml_data, overrides), the table at path of the
\* theme being the one the call is given.
ApplyOverrides(theme, path, toml_data, overrides) ==
  IF ~IsDict(overrides) THEN After(Err("AttributeError"), toml_data)
  ELSE WildcardOverridesFrom(theme, path, toml_data, overrides.v, 1)

(***************************************************************************)
(* apply_regex_overrides                                                   *)
(***************************************************************************)
\* Lines 279-282: the value a regex override stores.
RegexValue(raw_value, toml_data) ==
  LET d == HasDollar(raw_value)
  IN IF d = "TypeError" THEN Err(d)
     ELSE IF d = "yes" THEN ResolveRef(raw_value, toml_data)
     ELSE IF Falsy(raw_value) THEN Null
     ELSE raw_value

\* Lines 283-285: every key the pattern matches takes the value.
RegexOverride(theme, toml_data, regex_pattern, raw_value) ==
  LET override_value == RegexValue(raw_value, toml_data)
  IN IF IsErr(override_value) THEN override_value
     ELSE IF ~IsDict(theme) THEN Err("AttributeError")
     ELSE IF \E i \in 1..Len(theme.v) : IntKey(theme.v[i].k) THEN Err("TypeError")
     ELSE [theme EXCEPT !.v = [i \in 1..Len(theme.v) |->
                                 IF ReMatch(regex_pattern, theme.v[i].k)
                                 THEN KV(theme.v[i].k, override_value)
                                 ELSE theme.v[i]]]

RECURSIVE RegexOverridesFrom(_, _, _, _, _)
RegexOverridesFrom(theme, path, toml_data, items, i) ==
  IF i > Len(items) \/ IsErr(theme) THEN After(theme, toml_data)
  ELSE Bind(OnSubTable(theme, path,
                       RegexOverride(GetAt(theme, path), toml_data, items[i].k,
                                     Current(items[i].val, toml_data))),
            LAMBDA t1 : RegexOverridesFrom(t1, path, Reflected(toml_data, t1), items, i + 1))

\* apply_regex_overrides(theme, toml_data, regex_overrides), the table at path
\* of the theme being the one the call is given.
ApplyRegexOverrides(theme, path, toml_data, regex_overrides) ==
  IF ~IsDict(regex_overrides) THEN After(Err("AttributeError"), toml_data)
  ELSE RegexOverridesFrom(theme, path, toml_data, regex_overrides.v, 1)

(***************************************************************************)
(* Section names of a binding document                                     *)
(***************************************************************************)
K_overrides == <<"o", "v", "e", "r", "r", "i", "d", "e", "s">>
K_overrides_regex == <<"o", "v", "e", "r", "r", "i", "d", "e", "s", "-", "r", "e", "g", "e", "x">>
K_syntax_overrides == <<"s", "y", "n", "t", "a", "x", "-", "o", "v", "e", "r", "r", "i", "d", "e", "s">>
K_syntax_overrides_regex == <<"s", "y", "n", "t", "a", "x", "-", "o", "v", "e", "r", "r", "i", "d", "e", "s", "-", "r", "e", "g", "e", "x">>
K_stlye_overrides == <<"s", "t", "l", "y", "e", "-", "o", "v", "e", "r", "r", "i", "d", "e", "s">>
K_style_overrides == <<"s", "t", "y", "l", "e", "-", "o", "v", "e", "r", "r", "i", "d", "e", "s">>
K_style_overrides_regex == <<"s", "t", "y", "l", "e", "-", "o", "v", "e", "r", "r", "i", "d", "e", "s", "-", "r", "e", "g", "e", "x">>
K_style == <<"s", "t", "y", "l", "e">>
K_syntax == <<"s", "y", "n", "t", "a", "x">>

(***************************************************************************)
(* process_json_template: the stages of one variant                        *)
(***************************************************************************)
\* processed_theme['style'] / ['style']['syntax']: the path, when it exists.
HasPath(theme, path) ==
  \A n \in 1..Len(path) :
    LET c == GetAt(theme, SubSeq(path, 1, n - 1))
    IN IsDict(c) /\ HasKey(c, path[n].v)

\* The direct overrides applied before the deletions instead of after them.
DirectThenDeletions(processed_theme, toml_data) ==
  LET r == IF HasKey(toml_data, K_overrides)
           THEN ApplyDirectOverrides(processed_theme, toml_data, Get(toml_data, K_overrides))
           ELSE After(processed_theme, toml_data)
  IN IF IsErr(r.theme) THEN r
     ELSE After(ApplyDeletions(r.theme, r.toml_data), r.toml_data)

\* Lines 137-138
StageDirect(processed_theme, toml_data) ==
  IF HasKey(toml_data, K_overrides)
  THEN ApplyDirectOverrides(processed_theme, toml_data, Get(toml_data, K_overrides))
  ELSE After(processed_theme, toml_data)

\* Lines 139-140
StageRegex(processed_theme, toml_data) ==
  IF HasKey(toml_data, K_overrides_regex)
  THEN ApplyRegexOverrides(processed_theme, <<>>, toml_data,
                           Get(toml_data, K_overrides_regex))
  ELSE After(processed_theme, toml_data)

\* Lines 142-143
StageSyntax(processed_theme, toml_data) ==
  LET path == <<Str(K_style), Str(K_syntax)>>
  IN IF ~HasKey(toml_data, K_syntax_overrides) THEN After(processed_theme, toml_data)
     ELSE IF ~HasPath(processed_theme, path) THEN After(Err("KeyError"), toml_data)
     ELSE ApplyOverrides(processed_theme, path, toml_data, Get(toml_data, K_syntax_overrides))

\* Lines 144-145
StageSyntaxRegex(processed_theme, toml_data) ==
  LET path == <<Str(K_style), Str(K_syntax)>>
  IN IF ~HasKey(toml_data, K_syntax_overrides_regex) THEN After(processed_theme, toml_data)
     ELSE IF ~HasPath(processed_theme, path) THEN After(Err("KeyError"), toml_data)
     ELSE ApplyRegexOverrides(processed_theme, path, toml_data, Get(toml_data, K_syntax_overrides_regex))

\* Lines 147-148: the test reads 'stlye-overrides', the body 'style-overrides'.
StageStyle(processed_theme, toml_data) ==
  LET path == <<Str(K_style)>>
  IN IF ~HasKey(toml_data, K_stlye_overrides) THEN After(processed_theme, toml_data)
     ELSE IF ~HasPath(processed_theme, path) \/ ~HasKey(toml_data, K_style_overrides)
          THEN After(Err("KeyError"), toml_data)
     ELSE ApplyOverrides(processed_theme, path, toml_data, Get(toml_data, K_style_overrides))

\* Lines 149-150
StageStyleRegex(processed_theme, toml_data) ==
  LET path == <<Str(K_style)>>
  IN IF ~HasKey(toml_data, K_style_overrides_regex) THEN After(processed_theme, toml_data)
     ELSE IF ~HasPath(processed_theme, path) THEN After(Err("KeyError"), toml_data)
     ELSE ApplyRegexOverrides(processed_theme, path, toml_data, Get(toml_data, K_style_overrides_regex))

(***************************************************************************)
(* Reverse extraction: get_delete_keys                                     *)
(***************************************************************************)

\* A key as a path segment: "[key]" when the key holds a dot.
StringKey(key) == IF HasChar(key, ".") THEN <<"[">> \o key \o <<"]">> ELSE key

\* "key not in final_theme": a table has no such key, a list no such item, a
\* string no such substring; anything else raises TypeError.
KeyNotIn(key, final) ==
  IF IsDict(final) THEN [err |-> "", out |-> ~HasKey(final, key)]
  ELSE IF IsList(final)
       THEN [err |-> "", out |-> \A i \in 1..Len(final.v) : final.v[i] # Str(key)]
  ELSE IF IsStr(final) THEN [err |-> "", out |-> FindFrom(final.v, key, 1) = 0]
  ELSE [err |-> "TypeError", out |-> FALSE]

DK(keys, final, err) == [keys |-> keys, final |-> final, err |-> err]

RECURSIVE GetDeleteKeys(_, _, _)
RECURSIVE DeleteKeysFrom(_, _, _, _, _)
RECURSIVE DeleteKeysOfList(_, _, _, _, _)

\* Lines 349-353: the items of template[key] from index i on; `other` is
\* final_theme[key], which receives the items it is too short for.
DeleteKeysOfList(items, other, full_key, i, acc) ==
  IF i > Len(items) THEN DK(acc, other, "")
  ELSE IF other.t \in {"null", "bool", "num"} THEN DK(acc, other, "TypeError")
  ELSE IF i - 1 >= Len(other.v)
       THEN IF IsList(other)
            THEN DeleteKeysOfList(items, List(Append(other.v, items[i])), full_key, i + 1, acc)
            ELSE DK(acc, other, "AttributeError")
  ELSE IF IsDict(items[i])
       THEN IF IsDict(other) THEN DK(acc, other, "KeyError")
            ELSE Bind(GetDeleteKeys(items[i],
                                    IF IsStr(other) THEN Str(<<other.v[i]>>) ELSE other.v[i],
                                    full_key),
                      LAMBDA sub :
                        IF sub.err # "" THEN DK(acc, other, sub.err)
                        ELSE DeleteKeysOfList(items,
                               IF IsStr(other) THEN other
                               ELSE List([other.v EXCEPT ![i] = sub.final]),
                               full_key, i + 1, acc \o sub.keys))
  ELSE DeleteKeysOfList(items, other, full_key, i + 1, acc)

\* The loop of lines 340-353 from the i-th key of the template on.
DeleteKeysFrom(template, final, prefix, i, acc) ==
  IF i > Len(template.v) THEN DK(acc, final, "")
  ELSE
    LET key == template.v[i].k
        tval == template.v[i].val
        full_key == IF prefix # <<>> THEN prefix \o <<".">> \o StringKey(key) ELSE key
        missing == KeyNotIn(key, final)
    IN IF missing.err # "" THEN DK(acc, final, missing.err)
       ELSE IF missing.out
            THEN DeleteKeysFrom(template, final, prefix, i + 1, Append(acc, full_key))
       ELSE IF ~(IsDict(tval) \/ (IsList(tval) /\ tval.v # <<>>))
            THEN DeleteKeysFrom(template, final, prefix, i + 1, acc)
       ELSE IF ~IsDict(final) THEN DK(acc, final, "TypeError")
       ELSE Bind(IF IsDict(tval) THEN GetDeleteKeys(tval, Get(final, key), full_key)
                 ELSE DeleteKeysOfList(tval.v, Get(final, key), full_key, 1, <<>>),
                 LAMBDA sub :
                   IF sub.err # "" THEN DK(acc, final, sub.err)
                   ELSE DeleteKeysFrom(template, Put(final, key, sub.final), prefix, i + 1,
                                       acc \o sub.keys))

\* get_delete_keys(template, final_theme, prefix): the keys, and final_theme
\* as the call leaves it.
GetDeleteKeys(template, final, prefix) ==
  IF ~IsDict(template) THEN DK(<<>>, final, "AttributeError")
  ELSE DeleteKeysFrom(template, final, prefix, 1, <<>>)

(***************************************************************************)
(* Reverse extraction: extract_variables                                   *)
(***************************************************************************)
\* Data of lines 358-364; err names the exception that ended the call.
NoData ==
  [variables |-> Dict(<<>>), overrides |-> Dict(<<>>), not_done |-> Dict(<<>>),
   var_map |-> Dict(<<>>), full_name |-> Dict(<<>>), err |-> ""]

Fail(D, kind) == [D EXCEPT !.err = kind]

RECURSIVE WordEnd(_, _)
\* The position after the run \w* that starts at i.
WordEnd(s, i) == IF i <= Len(s) /\ s[i] \in WordChars THEN WordEnd(s, i + 1) ELSE i

RECURSIVE VarNameEnd(_, _)
\* (?:.\w+)* from position j: the position after the last group.
VarNameEnd(s, j) ==
  IF j + 1 <= Len(s) /\ s[j] # "\n" /\ s[j + 1] \in WordChars
  THEN VarNameEnd(s, WordEnd(s, j + 1))
  ELSE j

\* \$\w+(?:.\w+)* at position i: the position after the match, or 0.
VarMatchEnd(s, i) ==
  IF s[i] = "$" /\ i + 1 <= Len(s) /\ s[i + 1] \in WordChars
  THEN VarNameEnd(s, WordEnd(s, i + 1))
  ELSE 0

RECURSIVE FindVars(_, _)
\* re.findall from position i on
FindVars(s, i) ==
  LET C == {j \in i..Len(s) : VarMatchEnd(s, j) # 0}
  IN IF C = {} THEN <<>>
     ELSE <<Str(SubSeq(s, MinOf(C), VarMatchEnd(s, MinOf(C)) - 1))>>
          \o FindVars(s, VarMatchEnd(s, MinOf(C)))

\* parse_variable(var_name)
ParseVariable(var_name) ==
  IF Falsy(var_name) THEN [err |-> "", vars |-> <<var_name>>]
  ELSE IF ~IsStr(var_name) THEN [err |-> "TypeError", vars |-> <<>>]
  ELSE [err |-> "", vars |-> FindVars(var_name.v, 1)]

RECURSIVE PyRepr(_)
RECURSIVE PyReprItems(_)
RECURSIVE PyReprMembers(_)
\* str(value) with blanks and single quotes removed (strings without quotes
\* or backslashes).
PyRepr(x) ==
  CASE x.t = "null" -> <<"N", "o", "n", "e">>
    [] x.t = "bool" -> IF x.v THEN <<"T", "r", "u", "e">> ELSE <<"F", "a", "l", "s", "e">>
    [] x.t = "num" -> NatToText(x.v)
    [] x.t = "str" -> ReplaceAll(x.v, <<" ">>, <<>>)
    [] x.t = "list" -> <<"[">> \o PyReprItems(x.v) \o <<"]">>
    [] x.t = "dict" -> <<"{">> \o PyReprMembers(x.v) \o <<"}">>
PyReprItems(xs) ==
  IF xs = <<>> THEN <<>>
  ELSE PyRepr(xs[1]) \o (IF Len(xs) > 1 THEN <<",">> ELSE <<>>) \o PyReprItems(Tail(xs))
PyReprMembers(ps) ==
  IF ps = <<>> THEN <<>>
  ELSE ReplaceAll(ps[1].k, <<" ">>, <<>>) \o <<":">> \o PyRepr(ps[1].val)
       \o (IF Len(ps) > 1 THEN <<",">> ELSE <<>>) \o PyReprMembers(Tail(ps))

\* listify(value)
Listify(value) == <<"^", "S", "U", "B", "L", "I", "S", "T">> \o PyRepr(value)

\* The place of value among the keys of a histogram (1 == True), or 0.
HistIndex(h, value) ==
  LET C == {i \in 1..Len(h.v) : PyEq(h.v[i].k, value)}
  IN IF C = {} THEN 0 ELSE MinOf(C)

\* handle_variable(key, template_var_name, value)
HandleVariable(D, final_theme, key, template_var_name, value) ==
  IF ~IsStr(template_var_name) THEN Fail(D, "AttributeError")
  ELSE IF StartsWith(template_var_name.v, <<"$">>)
  THEN IF HasKey(D.variables, template_var_name.v)
       THEN IF value.t \in {"list", "dict"} THEN Fail(D, "TypeError")
            ELSE LET h == Get(D.variables, template_var_name.v)
                     i == HistIndex(h, value)
                 IN [D EXCEPT !.variables =
                       Put(@, template_var_name.v,
                           IF i # 0 THEN Dict([h.v EXCEPT ![i] = KV(@.k, @.val + 1)])
                           ELSE Dict(Append(h.v, KV(value, 1))))]
       ELSE IF IsDict(value) THEN Fail(D, "TypeError")
       ELSE [D EXCEPT !.variables =
               Put(@, template_var_name.v,
                   Dict(<<KV(IF IsList(value) THEN Str(Listify(value)) ELSE value, 1)>>))]
  ELSE IF HasKey(final_theme, template_var_name.v)
  THEN IF HasKey(D.overrides, key) THEN Fail(D, "ValueError")
       ELSE [D EXCEPT !.overrides = Put(@, key, Get(final_theme, template_var_name.v))]
  ELSE [D EXCEPT !.not_done =
          Put(@, key, [value |-> value, var_name |-> template_var_name])]

\* templ_partial.get(key)
TemplGet(templ_partial, key) ==
  IF HasKey(templ_partial, key) THEN Get(templ_partial, key) ELSE Null

NotDone(D, key, value, var_name) ==
  [D EXCEPT !.not_done = Put(@, key, [value |-> value, var_name |-> var_name])]

FullName(D, key, real_val, templ_val) ==
  [D EXCEPT !.full_name = Put(@, key, [real |-> real_val, templ |-> templ_val])]

RECURSIVE CreditAll(_, _, _, _, _, _, _)
\* Lines 426-433: every name parsed from the template item, from the j-th on.
CreditAll(vars, j, D, item, full_key, full_key_list, final_theme) ==
  IF D.err # "" \/ j > Len(vars) THEN D
  ELSE Bind(IF item.t = vars[j].t
            THEN IF item # vars[j]
                 THEN HandleVariable(D, final_theme, full_key, vars[j], item)
                 ELSE D
            ELSE NotDone(D, full_key_list, item, vars[j]),
            LAMBDA D1 : CreditAll(vars, j + 1, D1, item, full_key, full_key_list, final_theme))

\* Lines 440-457: a leaf is credited to the first name parsed from the
\* template value.
CreditFirst(D, templ_val, value, full_key, final_theme) ==
  Bind(<<FullName(D, full_key, value, templ_val), ParseVariable(templ_val)>>,
       LAMBDA b :
         LET D1 == b[1]
             parsed == b[2]
         IN IF parsed.err # "" THEN Fail(D1, parsed.err)
            ELSE IF parsed.vars = <<>> THEN D1
            ELSE IF value.t = parsed.vars[1].t
                 THEN IF value # parsed.vars[1]
                      THEN HandleVariable(D1, final_theme, full_key, parsed.vars[1], value)
                      ELSE D1
            ELSE IF value.t \in {"num", "bool"} /\ IsStr(parsed.vars[1])
                 THEN HandleVariable(D1, final_theme, full_key, parsed.vars[1], value)
            ELSE NotDone(D1, full_key, value, parsed.vars[1]))

\* Lines 463-477: the leaf is entered in var_map under the first name of its
\* template value that has a histogram, or under None.
MapLeaf(D, templ_val, key, value, current_prefix) ==
  LET full_key == IF current_prefix = <<>> THEN key
                  ELSE current_prefix \o <<".">> \o StringKey(key)
      parsed == ParseVariable(templ_val)
      C == {j \in 1..Len(parsed.vars) :
              IsStr(parsed.vars[j]) /\ HasKey(D.variables, parsed.vars[j].v)}
      first_var == IF C = {} THEN Null ELSE parsed.vars[MinOf(C)]
  IN IF ~((IsStr(templ_val) /\ StartsWith(templ_val.v, <<"$">>))
          \/ templ_val.t \in {"num", "bool"})
     THEN D
     ELSE IF parsed.err # "" THEN Fail(D, parsed.err)
     ELSE IF ~HasKey(D.var_map, first_var)
          THEN [D EXCEPT !.var_map = Put(@, first_var, Dict(<<KV(full_key, value)>>))]
     ELSE IF ~HasKey(Get(D.var_map, first_var), full_key)
          THEN [D EXCEPT !.var_map = Put(@, first_var, Put(Get(@, first_var), full_key, value))]
     ELSE Fail(D, "ValueError")

RECURSIVE Extract(_, _, _, _, _)
RECURSIVE ExtractItems(_, _, _, _, _, _)
RECURSIVE ExtractList(_, _, _, _, _, _)
RECURSIVE MapItems(_, _, _, _, _)

\* Lines 418-436: the items of a list of the final theme, from the i-th on.
ExtractList(templ_list, value, i, D, full_key, final_theme) ==
  IF D.err # "" \/ i > Len(value.v) THEN D
  ELSE
    LET item == value.v[i]
        full_key_list == full_key \o <<".">> \o NatToText(i - 1)
    IN Bind(IF i <= Len(templ_list.v)
            THEN IF IsDict(item)
                 THEN Extract(templ_list.v[i], item, D, full_key_list, final_theme)
                 ELSE Bind(<<FullName(D, full_key_list, item, templ_list.v[i]),
                             ParseVariable(templ_list.v[i])>>,
                           LAMBDA b :
                             IF b[2].err # "" THEN Fail(b[1], b[2].err)
                             ELSE CreditAll(b[2].vars, 1, b[1], item, full_key,
                                            full_key_list, final_theme))
            ELSE NotDone(FullName(D, full_key_list, item, Null), full_key_list, item, Null),
            LAMBDA D1 : ExtractList(templ_list, value, i + 1, D1, full_key, final_theme))

\* The loop of lines 412-457 from the i-th item of final_partial on.
ExtractItems(templ_partial, final_partial, i, D, current_prefix, final_theme) ==
  IF D.err # "" \/ i > Len(final_partial.v) THEN D
  ELSE
    LET key == final_partial.v[i].k
        value == final_partial.v[i].val
        full_key == IF current_prefix # <<>>
                    THEN current_prefix \o <<".">> \o StringKey(key) ELSE key
        templ_val == TemplGet(templ_partial, key)
    IN Bind(IF IsDict(value) /\ IsDict(templ_val)
            THEN Extract(templ_val, value, D, full_key, final_theme)
            ELSE IF IsList(value) /\ IsList(templ_val)
            THEN ExtractList(templ_val, value, 1, D, full_key, final_theme)
            ELSE IF IsList(value) /\ IsStr(templ_val)
            THEN HandleVariable(D, final_theme, full_key, templ_val, value)
            ELSE CreditFirst(D, templ_val, value, full_key, final_theme),
            LAMBDA D1 : ExtractItems(templ_partial, final_partial, i + 1, D1, current_prefix,
                                     final_theme))

\* The loop of lines 460-477 from the i-th item of final_partial on.
MapItems(templ_partial, final_partial, i, D, current_prefix) ==
  IF D.err # "" \/ i > Len(final_partial.v) THEN D
  ELSE Bind(MapLeaf(D, TemplGet(templ_partial, final_partial.v[i].k),
                    final_partial.v[i].k, final_partial.v[i].val, current_prefix),
            LAMBDA D1 : MapItems(templ_partial, final_partial, i + 1, D1, current_prefix))

\* extract(templ_partial, final_partial, Data, current_prefix)
Extract(templ_partial, final_partial, D, current_prefix, final_theme) ==
  IF D.err # "" \/ final_partial.v = <<>> THEN D
  ELSE IF ~IsDict(templ_partial) THEN Fail(D, "AttributeError")
  ELSE Bind(ExtractItems(templ_partial, final_partial, 1, D, current_prefix, final_theme),
            LAMBDA D1 : MapItems(templ_partial, final_partial, 1, D1, current_prefix))

RECURSIVE SortNotDone(_, _, _, _)
\* Lines 482-490: the entries of not_done from the i-th on; trash collects
\* the keys whose name has no histogram.
SortNotDone(items, i, D, trash) ==
  IF D.err # "" \/ i > Len(items) THEN [D |-> D, trash |-> trash]
  ELSE
    LET key == items[i].k
        value == items[i].val.value
        var_name == items[i].val.var_name
    IN IF var_name.t \in {"list", "dict"}
       THEN [D |-> Fail(D, "TypeError"), trash |-> trash]
       ELSE IF IsStr(var_name) /\ HasKey(D.variables, var_name.v)
       THEN IF value.t \in {"list", "dict"}
            THEN [D |-> Fail(D, "TypeError"), trash |-> trash]
            ELSE LET h == Get(D.variables, var_name.v)
                     j == HistIndex(h, value)
                 IN Bind(IF j # 0
                         THEN [D EXCEPT !.variables =
                                 Put(@, var_name.v,
                                     Dict([h.v EXCEPT ![j] = KV(@.k, @.val + 1)]))]
                         ELSE [D EXCEPT !.overrides = Put(@, key, value)],
                         LAMBDA D1 : SortNotDone(items, i + 1, D1, trash))
       ELSE SortNotDone(items, i + 1, D, Append(trash, key))

RECURSIVE FlattenTable(_, _, _)
\* Lines 501-506
FlattenTable(overrides, key, ps) ==
  IF ps = <<>> THEN overrides
  ELSE Bind(IF ps[1].val = Null THEN overrides
            ELSE Put(overrides, key \o <<".">> \o StringKey(ps[1].k), ps[1].val),
            LAMBDA o : FlattenTable(o, key, Tail(ps)))

RECURSIVE FlattenList(_, _, _, _)
\* Lines 510-513
FlattenList(overrides, key, xs, i) ==
  IF i > Len(xs) THEN overrides
  ELSE Bind(IF xs[i] = Null THEN overrides
            ELSE Put(overrides, key \o <<".">> \o NatToText(i - 1), xs[i]),
            LAMBDA o : FlattenList(o, key, xs, i + 1))

RECURSIVE EmptyTrash(_, _, _)
\* Lines 495-517: the keys of trash_bin from the i-th on.
EmptyTrash(trash, i, D) ==
  IF i > Len(trash) THEN D
  ELSE
    LET key == trash[i]
        real_val == Get(D.full_name, key).real
        templ_val == Get(D.full_name, key).templ
    IN Bind(IF ~HasKey(D.full_name, key) \/ real_val = Null THEN D
            ELSE IF IsDict(real_val)
                 THEN [D EXCEPT !.overrides = FlattenTable(@, key, real_val.v)]
            ELSE IF IsList(real_val)
                 THEN [D EXCEPT !.overrides = FlattenList(@, key, real_val.v, 1)]
            ELSE IF templ_val # Null THEN D
            ELSE [D EXCEPT !.overrides = Put(@, key, real_val)],
            LAMBDA D1 : EmptyTrash(trash, i + 1, D1))

\* extract_variables(template, final_theme): Data as the call leaves it.
ExtractVariables(template, final_theme) ==
  Bind(Extract(template, final_theme, NoData, <<>>, final_theme),
       LAMBDA D :
         IF D.err # "" THEN D
         ELSE Bind(SortNotDone(D.not_done.v, 1, D, <<>>),
                   LAMBDA sorted :
                     IF sorted.D.err # "" THEN sorted.D
                     ELSE EmptyTrash(sorted.trash, 1, sorted.D)))

(***************************************************************************)
(* Reverse extraction: colours                                             *)
(***************************************************************************)
\* is_hex_color(color): re.match, so "#" and three hex digits at the start
\* are enough.
IsHexColor(color) ==
  /\ IsStr(color) /\ Len(color.v) >= 4 /\ color.v[1] = "#"
  /\ \A i \in 2..4 : color.v[i] \in HexChars

LowerCase == <<"a", "b", "c", "d", "e", "f", "g", "h", "i", "j", "k", "l", "m",
               "n", "o", "p", "q", "r", "s", "t", "u", "v", "w", "x", "y", "z">>
UpperCase == <<"A", "B", "C", "D", "E", "F", "G", "H", "I", "J", "K", "L", "M",
               "N", "O", "P", "Q", "R", "S", "T", "U", "V", "W", "X", "Y", "Z">>
\* str.upper()
Upper(s) ==
  [i \in 1..Len(s) |->
     IF \E j \in 1..Len(LowerCase) : LowerCase[j] = s[i]
     THEN UpperCase[CHOOSE j \in 1..Len(LowerCase) : LowerCase[j] = s[i]]
     ELSE s[i]]

\* get_base_color(hex) for a string: the base colour, or the failed assertion.
GetBaseColor(hex) ==
  IF ~StartsWith(hex.v, <<"#">>) \/ Len(hex.v) \notin {4, 7, 9} THEN Err("AssertionError")
  ELSE LET up == Upper(hex.v)
       IN IF Len(up) = 4
          THEN Str(<<"#", up[2], up[2], up[3], up[3], up[4], up[4]>>)
          ELSE Str(SubSeq(up, 1, 7))

\* get_alpha(hex)
GetAlpha(hex) ==
  IF ~IsHexColor(hex) THEN Err("AssertionError")
  ELSE IF Len(hex.v) # 9 THEN Null
  ELSE Str(SubSeq(hex.v, 8, 9))

\* get_base_color(value) if is_hex_color(value) else value
BaseOrSelf(value) == IF IsHexColor(value) THEN GetBaseColor(value) ELSE value

\* colors.update({color: count})
CountColor(colors, color, count) ==
  IF HasKey(colors, color) THEN Put(colors, color, Get(colors, color) + count)
  ELSE Put(colors, color, count)

RECURSIVE CountEntries(_, _, _)
\* Lines 551-554 for one histogram, from entry i on.
CountEntries(colors, h, i) ==
  IF IsErr(colors) \/ i > Len(h) THEN colors
  ELSE Bind(IF IsHexColor(h[i].k)
            THEN LET base == GetBaseColor(h[i].k)
                 IN IF IsErr(base) THEN base ELSE CountColor(colors, base.v, h[i].val)
            ELSE colors,
            LAMBDA c : CountEntries(c, h, i + 1))

RECURSIVE CountVariables(_, _, _)
\* Lines 550-554
CountVariables(colors, vs, i) ==
  IF IsErr(colors) \/ i > Len(vs) THEN colors
  ELSE Bind(CountEntries(colors, vs[i].val.v, 1), LAMBDA c : CountVariables(c, vs, i + 1))

RECURSIVE CountOverrides(_, _, _)
\* Lines 556-559 and 566-569: every colour override counts once.
CountOverrides(colors, ovs, i) ==
  IF IsErr(colors) \/ i > Len(ovs) THEN colors
  ELSE Bind(IF ~Falsy(ovs[i].val) /\ IsHexColor(ovs[i].val)
            THEN LET base == GetBaseColor(ovs[i].val)
                 IN IF IsErr(base) THEN base ELSE CountColor(colors, base.v, 1)
            ELSE colors,
            LAMBDA c : CountOverrides(c, ovs, i + 1))

\* max(value, key=value.get): the first value with the highest count.
Representative(h) ==
  LET top == MaxOf({h.v[i].val : i \in 1..Len(h.v)})
  IN h.v[MinOf({i \in 1..Len(h.v) : h.v[i].val = top})].k

\* Line 562
SortedVariables(variables) ==
  Dict([i \in 1..Len(variables.v) |->
          KV(variables.v[i].k, Representative(variables.v[i].val))])

\* The state of cleanup_variables: overrides and var_map as they stand.
CV(overrides, var_map, err) == [overrides |-> overrides, var_map |-> var_map, err |-> err]

RECURSIVE CleanupPaths(_, _, _, _, _, _)
\* Lines 606-624 for one variable, from path i on: group collects the paths
\* whose colour is the variable's.
CleanupPaths(var_name, paths, i, variables, overrides, group) ==
  IF i > Len(paths) THEN [overrides |-> overrides, group |-> group, err |-> ""]
  ELSE
    LET key == paths[i].k
        raw == paths[i].val
        known == IsStr(var_name) /\ HasKey(variables, var_name.v)
        value == IF IsList(raw) THEN Str(Listify(raw)) ELSE raw
        color == BaseOrSelf(value)
        templ_color == IF known THEN BaseOrSelf(Get(variables, var_name.v)) ELSE Null
        alpha == IF IsHexColor(color) THEN GetAlpha(value) ELSE Null
        stop(kind) == [overrides |-> overrides, group |-> group, err |-> kind]
    IN IF IsList(raw) /\ ~known THEN stop("KeyError")
       ELSE IF IsList(raw) /\ value # Get(variables, var_name.v) THEN stop("ValueError")
       ELSE IF IsErr(color) THEN stop(color.v)
       ELSE IF IsErr(templ_color) THEN stop(templ_color.v)
       ELSE IF ~PyEq(color, templ_color)
            THEN IF IsErr(alpha) THEN stop(alpha.v)
                 ELSE Bind(Put(overrides, key,
                               IF ~Falsy(alpha)
                               THEN Str(color.v
                                        \o (IF StartsWith(color.v, <<"$">>) THEN <<".", ".">>
                                            ELSE <<>>)
                                        \o alpha.v)
                               ELSE color),
                           LAMBDA o : CleanupPaths(var_name, paths, i + 1, variables, o, group))
       ELSE IF IsDict(color) THEN stop("TypeError")
       ELSE Bind(Append(group, KV(key, value)),
                 LAMBDA g : CleanupPaths(var_name, paths, i + 1, variables, overrides, g))

\* max(alphas, key=lambda x: alphas.count(x)): the first most frequent one.
MostCommon(alphas) ==
  LET count(a) == Cardinality({i \in 1..Len(alphas) : alphas[i] = a})
      top == MaxOf({count(alphas[i]) : i \in 1..Len(alphas)})
  IN alphas[MinOf({i \in 1..Len(alphas) : count(alphas[i]) = top})]

RECURSIVE DemoteAlphas(_, _, _, _, _)
\* Lines 633-637: the paths of the group whose alpha is not the most common one
\* become overrides and leave var_map.
DemoteAlphas(group, i, most_common_alpha, overrides, paths) ==
  IF i > Len(group) THEN [overrides |-> overrides, paths |-> paths]
  ELSE IF GetAlpha(group[i].val) # most_common_alpha
       THEN Bind(<<Put(overrides, group[i].k, group[i].val), Del(paths, group[i].k)>>,
                 LAMBDA b : DemoteAlphas(group, i + 1, most_common_alpha, b[1], b[2]))
  ELSE DemoteAlphas(group, i + 1, most_common_alpha, overrides, paths)

RECURSIVE CleanupFrom(_, _, _, _)
\* cleanup_variables from the i-th variable of var_map on
CleanupFrom(var_map, i, variables, overrides) ==
  IF i > Len(var_map.v) THEN CV(overrides, var_map, "")
  ELSE
    LET var_name == var_map.v[i].k
        paths == var_map.v[i].val
    IN Bind(CleanupPaths(var_name, paths.v, 1, variables, overrides, <<>>),
         LAMBDA first :
           LET hex == SelectSeq(first.group, LAMBDA e : IsHexColor(e.val))
               alphas == [j \in 1..Len(hex) |-> GetAlpha(hex[j].val)]
               split == /\ Len(first.group) > 1
                        /\ Cardinality({alphas[j] : j \in 1..Len(alphas)}) > 1
           IN IF first.err # "" THEN CV(first.overrides, var_map, first.err)
              ELSE IF split
                   THEN Bind(DemoteAlphas(first.group, 1, MostCommon(alphas),
                                          first.overrides, paths),
                             LAMBDA demoted :
                               CleanupFrom(
                                 Dict([var_map.v EXCEPT ![i] = KV(var_name, demoted.paths)]),
                                 i + 1, variables, demoted.overrides))
              ELSE CleanupFrom(var_map, i + 1, variables, first.overrides))

\* cleanup_variables(var_map, variables, overrides)
CleanupVariables(var_map, variables, overrides) == CleanupFrom(var_map, 1, variables, overrides)

RECURSIVE InsertByCount(_, _)
\* One entry put after the entries whose count is not lower: a stable sort
\* in descending order.
InsertByCount(sorted, e) ==
  IF sorted = <<>> THEN <<e>>
  ELSE IF sorted[1].val >= e.val THEN <<sorted[1]>> \o InsertByCount(Tail(sorted), e)
  ELSE <<e>> \o sorted

RECURSIVE SortByCount(_, _)
SortByCount(es, sorted) ==
  IF es = <<>> THEN sorted
  ELSE Bind(InsertByCount(sorted, es[1]), LAMBDA so : SortByCount(Tail(es), so))

\* "$colors.color" and the index
ColorName(n) ==
  <<"$", "c", "o", "l", "o", "r", "s", ".", "c", "o", "l", "o", "r">> \o NatToText(n)

\* Lines 573-574: the palette, colour to name.
Palette(colors, threshold) ==
  LET kept == SortByCount(SelectSeq(colors.v, LAMBDA e : e.val > threshold), <<>>)
  IN Dict([i \in 1..Len(kept) |-> KV(kept[i].k, Str(ColorName(i)))])

\* colors.get(get_base_color(value), value)
PaletteName(palette, value) ==
  LET base == GetBaseColor(value)
  IN IF IsErr(base) THEN base
     ELSE IF HasKey(palette, base.v) THEN Get(palette, base.v) ELSE value

\* Lines 587-593 for one override value
SortedOverride(palette, value) ==
  IF Falsy(value) \/ ~IsHexColor(value) THEN value
  ELSE
    LET color == PaletteName(palette, value)
        alpha == GetAlpha(value)
        can_add_alpha ==
          \/ StartsWith(color.v, <<"$">>) /\ FindFrom(color.v, <<".", ".">>, 1) = 0
          \/ ~StartsWith(color.v, <<"$">>) /\ Len(color.v) < 9
    IN IF IsErr(color) THEN color
       ELSE IF alpha # Null /\ can_add_alpha
            THEN Str(color.v
                     \o (IF StartsWith(color.v, <<"$">>) THEN <<".", ".">> ELSE <<>>)
                     \o alpha.v)
       ELSE color

\* The first error among the values of a table, or "".
FirstError(d) ==
  LET C == {i \in 1..Len(d.v) : IsErr(d.v[i].val)}
  IN IF C = {} THEN "" ELSE d.v[MinOf(C)].val.v

\* Lines 547-569: the counter as it stands when the palette is built, or the
\* error raised on the way.
ColorCounter(variables, overrides, var_map) ==
  Bind(CountOverrides(CountVariables(Dict(<<>>), variables.v, 1), overrides.v, 1),
    LAMBDA counted :
      IF IsErr(counted) THEN counted
      ELSE Bind(CleanupVariables(var_map, SortedVariables(variables), overrides),
             LAMBDA cleaned :
               IF cleaned.err # "" THEN Err(cleaned.err)
               ELSE CountOverrides(counted, cleaned.overrides.v, 1)))

\* handle_colors(variables, overrides, var_map, threshold): what it returns,
\* and overrides and var_map as cleanup_variables leaves them.
HandleColors(variables, overrides, var_map, threshold) ==
  LET out(err, ovs, vm, cs, sv, so) ==
        [err |-> err, overrides |-> ovs, var_map |-> vm, color_counts |-> cs,
         variables |-> sv, sorted_overrides |-> so]
      none == Dict(<<>>)
  IN Bind(<<CountOverrides(CountVariables(none, variables.v, 1), overrides.v, 1),
            SortedVariables(variables)>>,
       LAMBDA b :
         LET counted == b[1]
             sorted_variables == b[2]
         IN IF IsErr(counted) THEN out(counted.v, overrides, var_map, none, none, none)
            ELSE Bind(CleanupVariables(var_map, sorted_variables, overrides),
              LAMBDA cleaned :
                IF cleaned.err # ""
                THEN out(cleaned.err, cleaned.overrides, cleaned.var_map, none, none, none)
                ELSE Bind(CountOverrides(counted, cleaned.overrides.v, 1),
                  LAMBDA recounted :
                    IF IsErr(recounted)
                    THEN out(recounted.v, cleaned.overrides, cleaned.var_map, none, none, none)
                    ELSE Bind(Palette(recounted, threshold),
                      LAMBDA colors :
                        Bind(<<Dict([i \in 1..Len(sorted_variables.v) |->
                                  KV(sorted_variables.v[i].k,
                                     IF IsHexColor(sorted_variables.v[i].val)
                                     THEN PaletteName(colors, sorted_variables.v[i].val)
                                     ELSE sorted_variables.v[i].val)]),
                               Dict([i \in 1..Len(cleaned.overrides.v) |->
                                  KV(cleaned.overrides.v[i].k,
                                     SortedOverride(colors, cleaned.overrides.v[i].val))])>>,
                          LAMBDA named :
                            IF FirstError(named[1]) # "" \/ FirstError(named[2]) # ""
                            THEN out(IF FirstError(named[1]) # "" THEN FirstError(named[1])
                                     ELSE FirstError(named[2]),
                                     cleaned.overrides, cleaned.var_map, none, none, none)
                            ELSE out("", cleaned.overrides, cleaned.var_map, colors,
                                     named[1], named[2]))))))

(***************************************************************************)
(* Inputs: template themes and binding documents                           *)
(***************************************************************************)
Absent == [t |-> "absent", v |-> <<>>]

RECURSIVE Entries(_)
\* The entries whose value is given.
Entries(ps) ==
  IF ps = <<>> THEN <<>>
  ELSE (IF ps[1].val = Absent THEN <<>> ELSE <<ps[1]>>) \o Entries(Tail(ps))

\* The values template key "a" takes.
Leaves ==
  {Str(<<"$", "x">>), Str(<<"$", "x", ".", ".", "7", "f">>), Str(<<"$", "x", ",", " ", "$", "y">>), Str(<<"$", "x", ".", "k">>), Str(<<"l", "i", "t">>), Str(<<"$", "y", ",", " ", "$", "x", ".", "k">>)}

Hex1 == Str(<<"#", "1", "1", "2", "2", "3", "3">>)
Hex2 == Str(<<"#", "4", "4", "5", "5", "6", "6">>)
Hex3 == Str(<<"#", "F", "F", "0", "0", "0", "0">>)
Green == Str(<<"#", "0", "0", "F", "F", "0", "0">>)

\* template['themes'][0] of the substitution scenarios
PlainTheme(leaf) ==
  Dict(<<KV(<<"a">>, leaf), KV(<<"n">>, Dict(<<KV(<<"b">>, Str(<<"$", "y">>))>>))>>)

\* template['themes'][0] with a style.syntax table
SyntaxTheme ==
  Dict(<<KV(<<"a">>, Str(<<"$", "x">>)),
         KV(K_style, Dict(<<KV(K_syntax, Dict(<<
            KV(<<"b", "u", "t", "t", "o", "n", ".", "b", "a", "c", "k", "g", "r", "o", "u", "n", "d">>, Str(<<"p">>)),
            KV(<<"b", "u", "t", "t", "o", "n", ".", "b", "o", "r", "d", "e", "r">>, Null),
            KV(<<"b", "u", "t", "t", "o", "n", "s", ".", "b", "a", "c", "k", "g", "r", "o", "u", "n", "d">>, Str(<<"q">>)),
            KV(<<"b", "u", "t", "t", "o", "n", ".", "a", ".", "b">>, Str(<<"r">>)),
            KV(<<"b", "u", "t", "t", "o", "n", ".", "h", "o", "v", "e", "r", "-", "b", "g">>, Str(<<"s">>)),
            KV(<<"b", "u", "t", "t", "o", "n", ".", "n">>, Num(5)),
            KV(<<"b", "u", "t", "t", "o", "n", ".">>, Str(<<"t">>))>>))>>))>>)

Templates == {PlainTheme(leaf) : leaf \in Leaves} \cup {SyntaxTheme}

\* Bindings of x: strings (plain, empty, a reference, an embedded placeholder,
\* one holding an alpha token), a number, booleans, a table, lists.
XVals ==
  {Absent, Hex1, Str(<<>>), Str(<<"$", "y">>), Str(<<"a", " ", "$", "y">>), Num(5), Bool(TRUE), Bool(FALSE),
   Dict(<<KV(<<"k">>, Hex2)>>), List(<<Str(<<"$", "y">>), Str(<<"b">>)>>), List(<<Num(1)>>),
   Str(<<"a", ".", ".", "b", "c">>)}
YVals == {Absent, Hex3, List(<<Str(<<"i">>)>>)}

\* A binding document: x, y and one optional section.
Doc(x, y, section) == Dict(Entries(<<KV(<<"x">>, x), KV(<<"y">>, y)>> \o section))

NoSection == <<>>

DirectSections ==
  {<<KV(K_overrides, Dict(<<KV(k, val)>>))>> :
     k \in {<<"a">>, <<"n", ".", "b">>},
     val \in {Green, Str(<<"$", "x">>), Bool(FALSE)}}

RegexSections ==
  {<<KV(K_overrides_regex, Dict(<<KV(<<"a">>, val)>>))>> : val \in {Green, Str(<<"$", "x">>)}}

\* A direct override and a regex override of the same key.
MixedSections ==
  {<<KV(K_overrides, Dict(<<KV(<<"a">>, Green)>>)),
     KV(K_overrides_regex, Dict(<<KV(<<"a">>, Hex2)>>))>>}

WildcardSections ==
  {<<KV(sec, Dict(<<KV(pat, Green)>>))>> :
     sec \in {K_syntax_overrides, K_syntax_overrides_regex, K_stlye_overrides,
              K_style_overrides_regex},
     pat \in {<<"b", "u", "t", "t", "o", "n", ".", "*">>}}
  \cup {<<KV(K_syntax_overrides, Dict(<<KV(pat, Green)>>))>> : pat \in {<<"b", "u", "t", "t", "o", "n", "s", ".", "*">>, <<"b", "u", "t", "t", "o", "n", ".", "*", "*">>}}
  \cup {<<KV(K_stlye_overrides, Dict(<<KV(<<"s", "*">>, Green)>>)),
          KV(K_style_overrides, Dict(<<KV(<<"s", "*">>, Dict(<<KV(<<"z">>, Green)>>))>>))>>}

DeletionSections ==
  {<<KV(K_deletions, Dict(<<KV(K_keys, List(<<Str(k)>>))>>))>> :
     k \in {<<"a">>, <<"n", ".", "b">>, <<"z", ".", "a">>, <<"n">>}}

\* A deletion and a direct override of the same path, alone and with a regex
\* override of the same key; a deletion of the table the override path crosses.
OrderSections ==
  {<<KV(K_deletions, Dict(<<KV(K_keys, List(<<Str(k)>>))>>)),
     KV(K_overrides, Dict(<<KV(k, Green)>>))>> : k \in {<<"a">>, <<"n", ".", "b">>}}
  \cup {<<KV(K_deletions, Dict(<<KV(K_keys, List(<<Str(<<"n">>)>>))>>)),
          KV(K_overrides, Dict(<<KV(<<"n", ".", "b">>, Green)>>))>>,
        <<KV(K_deletions, Dict(<<KV(K_keys, List(<<Str(<<"a">>)>>))>>)),
          KV(K_overrides, Dict(<<KV(<<"a">>, Green)>>)),
          KV(K_overrides_regex, Dict(<<KV(<<"a">>, Hex2)>>))>>}

\* template['themes'][0] with tables, lists, a list of tables, null and keys
\* that hold a dot.
DeepTheme ==
  Dict(<<KV(<<"a">>, Str(<<"$", "x">>)),
         KV(<<"e">>, Null),
         KV(<<"n">>, Dict(<<KV(<<"b">>, Str(<<"$", "y">>)),
                            KV(<<"t">>, Dict(<<KV(<<"u">>, Str(<<"v">>))>>)),
                            KV(<<"s">>, List(<<Str(<<"i">>)>>))>>)),
         KV(<<"l">>, List(<<Str(<<"p">>), Str(<<"q">>)>>)),
         KV(<<"p", "l", "a", "y", "e", "r", "s">>, List(<<Dict(<<KV(<<"s", "e", "l", "e", "c", "t", "i", "o", "n">>, Str(<<"s">>)), KV(<<"c">>, Str(<<"d">>))>>)>>)),
         KV(<<"k", ".", "d">>, Str(<<"d", "o", "t">>)),
         KV(K_style, Dict(<<KV(<<"k", ".", "d">>, Str(<<"w">>))>>))>>)

\* Override paths through containers the theme does not have.
NewPaths == {<<"m", ".", "k">>, <<"m", ".", "k", ".", "j">>, <<"m", ".", "0">>, <<"m", ".", "0", ".", "k">>, <<"l", ".", "2">>, <<"l", ".", "3">>, <<"n", ".", "c">>, <<"z">>}
\* Override paths of what the theme has.
OldPaths == {<<"a">>, <<"e">>, <<"n", ".", "b">>, <<"n", ".", "t">>, <<"n">>, <<"n", ".", "s">>, <<"l">>, <<"l", ".", "0">>, <<"p", "l", "a", "y", "e", "r", "s", ".", "0", ".", "s", "e", "l", "e", "c", "t", "i", "o", "n">>, <<"s", "t", "y", "l", "e", ".", "[", "k", ".", "d", "]">>, <<"[", "k", ".", "d", "]">>, <<"n", ".", "t", ".", "u">>}

\* One direct override of a path of DeepTheme.
PathSections ==
  {<<KV(K_overrides, Dict(<<KV(k, val)>>))>> :
     k \in NewPaths \cup OldPaths, val \in {Green, Bool(FALSE)}}

\* template['themes'][0] whose style.syntax table holds a string, null, a
\* number, a table, an empty list and an empty string under k., and a string
\* under j.
TypesTheme ==
  Dict(<<KV(<<"a">>, Str(<<"$", "x">>)),
         KV(K_style, Dict(<<KV(K_syntax, Dict(<<
            KV(<<"k", ".", "s">>, Str(<<"p">>)),
            KV(<<"k", ".", "n">>, Null),
            KV(<<"k", ".", "i">>, Num(5)),
            KV(<<"k", ".", "t">>, Dict(<<KV(<<"u">>, Str(<<"v">>))>>)),
            KV(<<"k", ".", "l">>, List(<<>>)),
            KV(<<"k", ".", "e">>, Str(<<>>)),
            KV(<<"j", ".", "s">>, Str(<<"q">>))>>))>>))>>)

\* One wildcard override of the syntax table: a string, a number, a list, a
\* table or the empty string, for every key under k. or for one key.
TypeSections ==
  {<<KV(K_syntax_overrides, Dict(<<KV(pat, val)>>))>> :
     pat \in {<<"k", ".", "*">>, <<"k", ".", "t">>, <<"k", ".", "l">>, <<"k", ".", "n">>,
              <<"k", ".", "s">>},
     val \in {Green, Num(7), List(<<Str(<<"i">>)>>), Dict(<<KV(<<"z">>, Green)>>), Str(<<>>)}}

SubstitutionDocs == {Doc(x, y, NoSection) : x \in XVals, y \in YVals}
OverrideDocs ==
  {Doc(x, y, sec) : x \in {Hex1, Bool(TRUE), Bool(FALSE)}, y \in {Hex3, List(<<Str(<<"i">>)>>)},
                    sec \in DirectSections \cup RegexSections \cup MixedSections}
WildcardDocs == {Doc(Hex1, Hex3, sec) : sec \in WildcardSections}
DeletionDocs == {Doc(Hex1, y, sec) : y \in {Absent, Hex3}, sec \in DeletionSections}
PathDocs == {Doc(Hex1, Hex3, sec) : sec \in PathSections}
\* One deletion of a path of DeepTheme: paths through a table the theme does
\* not hold (z, n.z, n.t.z), through a list index, through a bracketed
\* segment, and plain paths the theme holds.
DeepDeletionSections ==
  {<<KV(K_deletions, Dict(<<KV(K_keys, List(<<Str(k)>>))>>))>> :
     k \in {<<"z", ".", "a">>, <<"z", ".", "b">>, <<"n", ".", "z", ".", "b">>,
            <<"n", ".", "z", ".", "a">>, <<"n", ".", "t", ".", "z", ".", "u">>,
            <<"l", ".", "5", ".", "q">>,
            <<"p", "l", "a", "y", "e", "r", "s", ".", "0", ".",
              "s", "e", "l", "e", "c", "t", "i", "o", "n">>,
            <<"p", "l", "a", "y", "e", "r", "s", ".", "0", ".", "c">>,
            <<"s", "t", "y", "l", "e", ".", "[", "k", ".", "d", "]">>,
            <<"[", "k", ".", "d", "]">>, <<"n", ".", "t", ".", "u">>, <<"n", ".", "b">>,
            <<"a">>}}

DeepDeletionDocs == {Doc(Hex1, Hex3, sec) : sec \in DeepDeletionSections}
\* Direct overrides and deletions with a path whose bracket is never closed,
\* next to a well-formed entry.
MalformedKey == <<"n", ".", "[", "b">>
MalformedSections ==
  {<<KV(K_overrides, Dict(<<KV(MalformedKey, Green), KV(<<"z">>, Green)>>))>>,
   <<KV(K_overrides, Dict(<<KV(<<"z">>, Green), KV(MalformedKey, Green)>>))>>,
   <<KV(K_overrides, Dict(<<KV(<<"n", ".", "b">>, Green), KV(MalformedKey, Green)>>))>>,
   <<KV(K_deletions, Dict(<<KV(K_keys, List(<<Str(MalformedKey), Str(<<"a">>)>>))>>))>>,
   <<KV(K_deletions, Dict(<<KV(K_keys, List(<<Str(<<"a">>), Str(MalformedKey)>>))>>))>>}

MalformedDocs == {Doc(Hex1, Hex3, sec) : sec \in MalformedSections}
\* Bindings whose $-references form a chain x -> y -> z, and bindings whose
\* references form a cycle: x -> x, x -> y -> x, and x -> an element of x.
ChainDocs ==
  {Doc(x, Str(<<"$", "z">>), <<KV(<<"z">>, Hex2)>>) :
     x \in {Str(<<"$", "y">>), List(<<Str(<<"$", "y">>)>>)}}
CyclicDocs ==
  {Doc(Str(<<"$", "x">>), Hex3, NoSection), Doc(Str(<<"$", "y">>), Str(<<"$", "x">>), NoSection),
   Doc(List(<<Str(<<"$", "x">>)>>), Hex3, NoSection)}
\* template['themes'][0] with a placeholder as a key.
KeyTheme ==
  Dict(<<KV(<<"$", "x">>, Str(<<"v">>)), KV(<<"a">>, Str(<<"$", "x">>)),
         KV(<<"n">>, Dict(<<KV(<<"$", "y">>, Str(<<"w">>))>>))>>)
\* Bindings of x and y for KeyTheme: a colour, and the name of another key.
KeyDocs == {Doc(x, y, NoSection) : x \in {Hex1, Str(<<"a">>)}, y \in {Absent, Hex3}}
\* template['themes'][0] for overrides that store one table of the binding
\* document under two keys of the syntax table.
SharedTheme ==
  Dict(<<KV(<<"a">>, Str(<<"$", "x">>)),
         KV(K_style, Dict(<<KV(K_syntax, Dict(<<KV(<<"k", "1">>, Str(<<"p">>)),
                                                KV(<<"k", "2">>, Str(<<"q">>)),
                                                KV(<<"k", "3">>, Str(<<"r">>))>>))>>))>>)
\* The table t, direct overrides that store it at k1 and k2, one wildcard
\* override of the syntax table, and a regex override that stores t at k3.
SharedSections ==
  {<<KV(<<"t">>, Dict(<<KV(<<"p">>, Num(1))>>)),
     KV(K_overrides, Dict(<<KV(<<"s", "t", "y", "l", "e", ".", "s", "y", "n", "t", "a", "x", ".", "k", "1">>, Str(<<"$", "t">>)),
                            KV(<<"s", "t", "y", "l", "e", ".", "s", "y", "n", "t", "a", "x", ".", "k", "2">>, second)>>)),
     KV(K_syntax_overrides, Dict(<<KV(pat, val)>>)),
     KV(K_syntax_overrides_regex, Dict(<<KV(<<"k", "3">>, third)>>))>> :
     second \in {Str(<<"$", "t">>), Green},
     pat \in {<<"k", "1">>, <<"k", "3">>, <<"k", "*">>},
     val \in {Dict(<<KV(<<"q">>, Green)>>), Green, Str(<<>>)},
     third \in {Str(<<"$", "t">>), Green}}
SharedDocs == {Doc(Hex1, Hex3, sec) : sec \in SharedSections}
TypeDocs == {Doc(Hex1, Hex3, sec) : sec \in TypeSections}
OrderDocs == {Doc(Hex1, y, sec) : y \in {Hex3, List(<<Str(<<"i">>)>>)}, sec \in OrderSections}

\* The runs: a template theme and the binding documents processed against it.
Runs ==
  {[template |-> PlainTheme(leaf), tomls |-> <<doc>>] :
     leaf \in Leaves, doc \in SubstitutionDocs}
  \cup {[template |-> PlainTheme(leaf), tomls |-> <<doc>>] :
          leaf \in {Str(<<"$", "x">>), Str(<<"l", "i", "t">>)}, doc \in OverrideDocs}
  \cup {[template |-> SyntaxTheme, tomls |-> <<doc>>] : doc \in WildcardDocs}
  \cup {[template |-> DeepTheme, tomls |-> <<doc>>] : doc \in PathDocs}
  \cup {[template |-> TypesTheme, tomls |-> <<doc>>] : doc \in TypeDocs}
  \cup {[template |-> PlainTheme(leaf), tomls |-> <<doc>>] :
          leaf \in Leaves, doc \in ChainDocs \cup CyclicDocs}
  \cup {[template |-> DeepTheme, tomls |-> <<doc>>] : doc \in MalformedDocs}
  \cup {[template |-> KeyTheme, tomls |-> <<doc>>] : doc \in KeyDocs}
  \cup {[template |-> SharedTheme, tomls |-> <<doc>>] : doc \in SharedDocs}
  \cup {[template |-> DeepTheme, tomls |-> <<doc>>] : doc \in DeepDeletionDocs}
  \cup {[template |-> PlainTheme(leaf), tomls |-> <<doc>>] :
          leaf \in {Str(<<"$", "x">>), Str(<<"l", "i", "t">>)}, doc \in OrderDocs}
  \cup {[template |-> tpl, tomls |-> <<d1, d2>>] :
          tpl \in {PlainTheme(Str(<<"$", "x">>)), SyntaxTheme},
          d1 \in DeletionDocs \cup {Doc(Hex1, Hex3, NoSection)},
          d2 \in {Doc(Hex1, Hex3, NoSection), Doc(Hex2, Absent, NoSection)}
                 \cup {Doc(Hex1, Hex3, sec) : sec \in MixedSections}}

(***************************************************************************)
(* Inputs: templates and concrete themes of reverse extraction             *)
(***************************************************************************)
\* What the template holds beside its placeholders: nothing, literals of
\* every type, a list and a table.
Besides ==
  {Absent, Str(<<"l", "i", "t">>), Null, Num(700), Num(0), Bool(FALSE), Bool(TRUE),
   List(<<Str(<<"p">>)>>), Dict(<<KV(<<"k">>, Str(<<"l", "i", "t">>))>>)}

\* The values a concrete theme holds at a placeholder.
Concretes == {Hex3, Str(<<"#", "f", "f", "0", "0", "0", "0", "8", "0">>), Green, Str(<<"p", "l", "a", "i", "n">>)}

\* A theme with the leaves a, b, c and one more key w.
Leaves3(a, b, c, w) ==
  Dict(Entries(<<KV(<<"a">>, a), KV(<<"b">>, b), KV(<<"c">>, c), KV(<<"w">>, w)>>))

\* $x at one, two or three leaves, the concrete theme holding v at each.
UniformRuns ==
  {[template |-> Leaves3(Str(<<"$", "x">>), b, c, w),
    finals |-> <<Leaves3(v, IF b = Absent THEN Absent ELSE v,
                         IF c = Absent THEN Absent ELSE v, w)>>] :
     b \in {Absent, Str(<<"$", "x">>)}, c \in {Absent, Str(<<"$", "x">>)}, w \in Besides, v \in Concretes}

\* $x at three leaves, the concrete theme holding any values there.
MixedRuns ==
  {[template |-> Leaves3(Str(<<"$", "x">>), Str(<<"$", "x">>), Str(<<"$", "x">>), Absent), finals |-> <<Leaves3(a, b, c, Absent)>>] :
     a \in Concretes, b \in Concretes, c \in Concretes}

\* Two concrete themes reversed against one template; the second lacks a key.
PairRuns ==
  {[template |-> Leaves3(Str(<<"$", "x">>), Str(<<"$", "x">>), Absent, Str(<<"l", "i", "t">>)),
    finals |-> <<Leaves3(v, v, Absent, Str(<<"l", "i", "t">>)), Leaves3(v, Absent, Absent, w)>>] :
     v \in Concretes, w \in {Str(<<"l", "i", "t">>), Str(<<"p", "l", "a", "i", "n">>)}}

\* $x at two leaves, and a key z of the concrete theme that the template does
\* not have.
ExtraRuns ==
  {[template |-> Leaves3(Str(<<"$", "x">>), Str(<<"$", "x">>), Absent, Absent),
    finals |-> <<Dict(<<KV(<<"a">>, a), KV(<<"b">>, b), KV(<<"z">>, z)>>)>>] :
     a \in {Hex3, Green}, b \in {Hex3, Green},
     z \in {Hex3, Green, Hex1, Str(<<"p", "l", "a", "i", "n">>)}}

\* A fallback chain at leaf a, beside a plain use of $y or none.
ChainRuns ==
  {[template |-> Leaves3(Str(<<"$", "x", ",", " ", "$", "y">>), b, Absent, Absent),
    finals |-> <<Leaves3(v, IF b = Absent THEN Absent ELSE u, Absent, Absent)>>] :
     b \in {Absent, Str(<<"$", "y">>)}, v \in Concretes, u \in {Hex3, Green}}

\* A literal at leaf w of the template, the concrete theme holding another
\* value there.
Literals == {Str(<<"l", "i", "t">>), Num(700), Num(0), Bool(TRUE), Bool(FALSE)}
LiteralRuns ==
  {[template |-> Leaves3(Str(<<"$", "x">>), Absent, Absent, w),
    finals |-> <<Leaves3(Hex3, Absent, Absent, u)>>] :
     w \in Literals, u \in {Str(<<"p", "l", "a", "i", "n">>), Num(5), Bool(TRUE), Bool(FALSE)}}

\* A key of the concrete theme that the template does not have, at the top
\* level or in table n, with a scalar, a table or a list as value.
StrayVals ==
  {Num(5), Bool(TRUE), Str(<<"p", "l", "a", "i", "n">>), Str(<<>>), Null,
   Dict(<<KV(<<"k">>, Str(<<"l", "i", "t">>)), KV(<<"k", ".", "d">>, Hex1), KV(<<"e">>, Null),
          KV(<<"t">>, Dict(<<KV(<<"u">>, Str(<<"v">>))>>))>>),
   List(<<Str(<<"p">>), Null, Num(1)>>), Dict(<<>>), List(<<>>)}
StrayKeys == {<<"z">>, <<"k", ".", "d">>}
NestedTemplate ==
  Dict(<<KV(<<"a">>, Str(<<"$", "x">>)), KV(<<"n">>, Dict(<<KV(<<"b">>, Str(<<"$", "x">>))>>))>>)
StrayRuns ==
  {[template |-> NestedTemplate,
    finals |-> <<Dict(<<KV(<<"a">>, Hex3), KV(<<"n">>, Dict(<<KV(<<"b">>, Hex3)>>)), KV(key, v)>>)>>] :
     key \in StrayKeys, v \in StrayVals}
  \cup {[template |-> NestedTemplate,
         finals |-> <<Dict(<<KV(<<"a">>, Hex3), KV(<<"n">>, Dict(<<KV(<<"b">>, Hex3), KV(key, v)>>))>>)>>] :
          key \in StrayKeys, v \in StrayVals}

\* Strings that start like a colour: five hex digits, a colour followed by
\* other characters, two hex digits, and a well-formed short colour.
NearColors ==
  {Str(<<"#", "1", "2", "3", "4", "5">>), Str(<<"#", "F", "F", "0", "0", "0", "0", "x", "y">>),
   Str(<<"#", "1", "2">>), Str(<<"#", "f", "0", "0">>), Str(<<"#", "F", "F", "F", "z">>)}
NearColorRuns ==
  {[template |-> Leaves3(Str(<<"$", "x">>), Absent, Absent, w),
    finals |-> <<Leaves3(v, Absent, Absent, u)>>] :
     v \in NearColors, w \in {Absent, Str(<<"l", "i", "t">>)},
     u \in {Absent, Str(<<"l", "i", "t">>)}}
  \cup {[template |-> Leaves3(Str(<<"$", "x">>), Absent, Absent, Absent),
         finals |-> <<Dict(<<KV(<<"a">>, Hex3), KV(<<"z">>, v)>>)>>] : v \in NearColors}

\* $x at three leaves, the concrete theme holding one colour spelled in
\* different ways, with and without alpha.
Spellings ==
  {Hex3, Str(<<"#", "f", "0", "0">>), Str(<<"#", "f", "f", "0", "0", "0", "0", "8", "0">>)}
SpellingRuns ==
  {[template |-> Leaves3(Str(<<"$", "x">>), Str(<<"$", "x">>), Str(<<"$", "x">>), Absent),
    finals |-> <<Leaves3(a, b, c, Absent)>>] :
     a \in Spellings, b \in Spellings, c \in Spellings \ {Str(<<"#", "f", "f", "0", "0", "0", "0", "8", "0">>)}}

\* A key k.d at the top level next to the key d of the table k, in either
\* order, under a placeholder, a literal or the empty string; the key k.d
\* without template counterpart; and a theme that has the empty string as key.
Dotted(first, top, nested, more) ==
  Dict(Entries(IF first
               THEN <<KV(<<"k", ".", "d">>, top), KV(<<"k">>, Dict(<<KV(<<"d">>, nested)>>)),
                      KV(<<>>, more)>>
               ELSE <<KV(<<"k">>, Dict(<<KV(<<"d">>, nested)>>)), KV(<<"k", ".", "d">>, top),
                      KV(<<>>, more)>>))
CollisionRuns ==
  {[template |-> Dotted(first, t, u, Absent), finals |-> <<Dotted(first, Hex1, v, Absent)>>] :
     first \in BOOLEAN, t \in {Str(<<"$", "x">>), Str(<<"l", "i", "t">>), Absent},
     u \in {Str(<<"$", "x">>), Str(<<"$", "y">>), Str(<<"l", "i", "t">>)}, v \in {Hex1, Hex2}}
  \cup {[template |-> Dotted(first, Str(<<>>), Str(<<>>), e),
         finals |-> <<Dotted(first, Str(<<"v">>), Str(<<"w">>), e)>>] :
          first \in BOOLEAN, e \in {Absent, Str(<<"z">>)}}

ReverseRuns ==
  UniformRuns \cup MixedRuns \cup PairRuns \cup ExtraRuns \cup ChainRuns \cup LiteralRuns
  \cup StrayRuns \cup NearColorRuns \cup SpellingRuns \cup CollisionRuns

(***************************************************************************)
(* The state of process_json_template                                      *)
(***************************************************************************)
VARIABLES
  template_file,     \* themes[0] of the template document on disk
  toml_files,        \* the binding documents, in the order they are processed
  heap,              \* the objects: "template" is template['themes'][0],
                     \* "copy" the deepcopy the current variant works on
  theme,             \* the object the local variable theme refers to
  idx,               \* the position of the loop in toml_files
  toml_data,         \* the binding document of the current variant
  processed_theme,   \* the theme of the current variant after substitution
  processed_themes,  \* the themes of the variants done
  raised,            \* the stage the exception that ended the run came from
  pc,
  final_themes,      \* reverse_process: final_theme['themes']
  threshold,         \* reverse_process: the palette threshold
  delete,            \* reverse_process: the keys get_delete_keys returned
  Data,              \* reverse_process: Data of extract_variables
  color_counts,      \* reverse_process: the palette handle_colors returned
  sorted_variables,  \* reverse_process: the variables handle_colors returned
  sorted_overrides   \* reverse_process: the overrides handle_colors returned

\* The state of reverse_process
revvars == <<final_themes, threshold, delete, Data, color_counts, sorted_variables,
             sorted_overrides>>

vars == <<template_file, toml_files, heap, theme, idx, toml_data, processed_theme,
          processed_themes, raised, pc, final_themes, threshold, delete, Data,
          color_counts, sorted_variables, sorted_overrides>>

\* reverse_process has not run.
ReverseIdle ==
  /\ final_themes = <<>>
  /\ threshold = 0
  /\ delete = <<>>
  /\ Data = NoData
  /\ color_counts = Dict(<<>>)
  /\ sorted_variables = Dict(<<>>)
  /\ sorted_overrides = Dict(<<>>)

\* deepcopy without the copy: theme is template['themes'][0] itself.
AliasRef(src) == src

\* deepcopy(template['themes'][0]): the object the copy is.
DeepCopyRef(src) == "copy"

Init ==
  /\ \E run \in Runs :
       /\ template_file = run.template
       /\ toml_files = run.tomls
       /\ heap = [template |-> run.template, copy |-> Null]
  /\ theme = "template"
  /\ idx = 1
  /\ toml_data = Null
  /\ processed_theme = Null
  /\ processed_themes = <<>>
  /\ raised = ""
  /\ pc = "loop"
  /\ ReverseIdle

\* Lines 115-117: the next binding document is loaded, the template copied.
LoadVariant ==
  /\ pc = "loop" /\ idx <= Len(toml_files)
  /\ toml_data' = Held(toml_files[idx], <<>>)
  /\ theme' = DeepCopyRef("template")
  /\ heap' = [heap EXCEPT ![DeepCopyRef("template")] = heap.template]
  /\ pc' = "deletions"
  /\ UNCHANGED <<template_file, toml_files, idx, processed_theme, processed_themes, raised>>
  /\ UNCHANGED revvars

\* Lines 119-129
Deletions ==
  /\ pc = "deletions"
  /\ \E r \in {ApplyDeletions(heap[theme], toml_data)} :
        IF IsErr(r)
        THEN /\ pc' = "crashed" /\ raised' = "deletions" /\ heap' = heap
        ELSE /\ pc' = "substitute" /\ raised' = raised
             /\ heap' = [heap EXCEPT ![theme] = r]
  /\ UNCHANGED <<template_file, toml_files, theme, idx, toml_data, processed_theme,
                 processed_themes>>
  /\ UNCHANGED revvars

\* A stage that computes processed_theme: an exception ends the run.
Stage(from, to, r) ==
  /\ pc = from
  /\ \E result \in {r} :
       /\ processed_theme' = result.theme
       /\ toml_data' = result.toml_data
       /\ pc' = IF IsErr(result.theme) THEN "crashed" ELSE to
       /\ raised' = IF IsErr(result.theme) THEN from ELSE raised
  /\ UNCHANGED <<template_file, toml_files, heap, theme, idx, processed_themes>>
  /\ UNCHANGED revvars

\* Lines 131-134
Substitute ==
  Stage("substitute", "direct", After(Materialize(heap[theme], toml_data), toml_data))
\* Lines 137-138
DirectOverrides == Stage("direct", "regex", StageDirect(processed_theme, toml_data))
\* Lines 139-140
RegexOverrides == Stage("regex", "syntax", StageRegex(processed_theme, toml_data))
\* Lines 142-143
SyntaxOverrides == Stage("syntax", "syntax_regex", StageSyntax(processed_theme, toml_data))
\* Lines 144-145
SyntaxRegexOverrides ==
  Stage("syntax_regex", "style", StageSyntaxRegex(processed_theme, toml_data))
\* Lines 147-148
StyleOverrides == Stage("style", "style_regex", StageStyle(processed_theme, toml_data))
\* Lines 149-150
StyleRegexOverrides ==
  Stage("style_regex", "append", StageStyleRegex(processed_theme, toml_data))

\* Line 153
AppendTheme ==
  /\ pc = "append"
  /\ processed_themes' = Append(processed_themes, processed_theme)
  /\ idx' = idx + 1
  /\ pc' = "loop"
  /\ UNCHANGED <<template_file, toml_files, heap, theme, toml_data, processed_theme, raised>>
  /\ UNCHANGED revvars

\* Lines 155-156: template['themes'] = processed_themes
Return ==
  /\ pc = "loop" /\ idx > Len(toml_files)
  /\ pc' = "done"
  /\ UNCHANGED <<template_file, toml_files, heap, theme, idx, toml_data, processed_theme,
                 processed_themes, raised>>
  /\ UNCHANGED revvars

Next ==
  \/ LoadVariant
  \/ Deletions
  \/ Substitute
  \/ DirectOverrides
  \/ RegexOverrides
  \/ SyntaxOverrides
  \/ SyntaxRegexOverrides
  \/ StyleOverrides
  \/ StyleRegexOverrides
  \/ AppendTheme
  \/ Return

Spec == Init /\ [][Next]_vars

(***************************************************************************)
(* reverse_process                                                         *)
(***************************************************************************)
\* What reverse_process leaves alone of the state of process_json_template.
\* The template holds one theme, so templ is template['themes'][0] for every
\* concrete theme (lines 299-303).
fwdvars == <<template_file, toml_files, heap, theme, toml_data, processed_theme,
             processed_themes>>

InitReverse ==
  /\ \E run \in ReverseRuns :
       /\ template_file = run.template
       /\ final_themes = run.finals
       /\ heap = [template |-> run.template, copy |-> Null]
  /\ threshold \in {0, 1}
  /\ toml_files = <<>>
  /\ theme = "template"
  /\ idx = 1
  /\ toml_data = Null
  /\ processed_theme = Null
  /\ processed_themes = <<>>
  /\ raised = ""
  /\ pc = "rev_delete"
  /\ delete = <<>>
  /\ Data = NoData
  /\ color_counts = Dict(<<>>)
  /\ sorted_variables = Dict(<<>>)
  /\ sorted_overrides = Dict(<<>>)

\* Line 305: get_delete_keys fills in the concrete theme where a list of the
\* template is longer.
DeleteKeysStep ==
  /\ pc = "rev_delete" /\ idx <= Len(final_themes)
  /\ \E r \in {GetDeleteKeys(template_file, final_themes[idx], <<>>)} :
        IF r.err # ""
        THEN /\ pc' = "crashed" /\ raised' = "get_delete_keys"
             /\ UNCHANGED <<delete, final_themes>>
        ELSE /\ pc' = "rev_extract" /\ raised' = raised
             /\ delete' = r.keys
             /\ final_themes' = [final_themes EXCEPT ![idx] = r.final]
  /\ UNCHANGED <<fwdvars, idx, threshold, Data, color_counts, sorted_variables,
                 sorted_overrides>>

\* Lines 307-309
ExtractStep ==
  /\ pc = "rev_extract"
  /\ Data' = ExtractVariables(template_file, final_themes[idx])
  /\ pc' = IF Data'.err # "" THEN "crashed" ELSE "rev_colors"
  /\ raised' = IF Data'.err # "" THEN "extract_variables" ELSE raised
  /\ UNCHANGED <<fwdvars, idx, final_themes, threshold, delete, color_counts,
                 sorted_variables, sorted_overrides>>

\* Line 320: cleanup_variables works on the overrides and the var_map of Data.
ColorsStep ==
  /\ pc = "rev_colors"
  /\ \E r \in {HandleColors(Data.variables, Data.overrides, Data.var_map, threshold)} :
        /\ Data' = [Data EXCEPT !.overrides = r.overrides, !.var_map = r.var_map,
                                !.err = r.err]
        /\ color_counts' = r.color_counts
        /\ sorted_variables' = r.variables
        /\ sorted_overrides' = r.sorted_overrides
        /\ pc' = IF r.err # "" THEN "crashed" ELSE "rev_toml"
        /\ raised' = IF r.err # "" THEN "handle_colors" ELSE raised
  /\ UNCHANGED <<fwdvars, idx, final_themes, threshold, delete>>

\* Lines 331-334: the binding document is written (its text is not part of
\* the state) and the loop goes on.
TomlStep ==
  /\ pc = "rev_toml"
  /\ idx' = idx + 1
  /\ pc' = "rev_delete"
  /\ UNCHANGED <<fwdvars, raised, revvars>>

\* Line 336
ReverseReturn ==
  /\ pc = "rev_delete" /\ idx > Len(final_themes)
  /\ pc' = "rev_done"
  /\ UNCHANGED <<fwdvars, idx, raised, revvars>>

NextReverse ==
  \/ DeleteKeysStep
  \/ ExtractStep
  \/ ColorsStep
  \/ TomlStep
  \/ ReverseReturn

SpecReverse == InitReverse /\ [][NextReverse]_vars


(***************************************************************************)
(* Vocabulary of the properties                                            *)
(***************************************************************************)
\* A string that is a placeholder: one or more $-names separated by commas.
IsPlaceholder(x) == IsStr(x) /\ RecMatchEnd(x.v, 1) = Len(x.v) + 1

\* The candidates of a placeholder, in order, without the "$".
CandNames(l) ==
  LET names == MapStrip(Split(l.v, ","))
  IN [i \in 1..Len(names) |-> Tail(names[i])]

\* A value that is written as it is: a number, or a string without "$".
PlainScalar(v) == v.t = "num" \/ (IsStr(v) /\ ~HasChar(v.v, "$"))

\* d[k], or Absent when the table has no key k.
Lookup(d, k) == IF IsDict(d) /\ HasKey(d, k) THEN Get(d, k) ELSE Absent

\* Substitution has just produced processed_theme from heap[theme].
Substituted == pc = "direct"

RECURSIVE SameShape(_, _)
\* r has the tables, keys and key order of t; a literal leaf is unchanged and
\* a placeholder leaf is a scalar, a list or null, and no placeholder.
SameShape(t, r) ==
  IF IsDict(t)
  THEN /\ IsDict(r) /\ Keys(t) = Keys(r)
       /\ \A i \in 1..Len(t.v) : SameShape(t.v[i].val, r.v[i].val)
  ELSE IF IsPlaceholder(t)
  THEN /\ r.t \in {"null", "bool", "num", "str", "list"}
       /\ ~IsPlaceholder(r)
       /\ IsList(r) => \A i \in 1..Len(r.v) : ~IsPlaceholder(r.v[i])
  ELSE r = t

\* C1: materializing a template theme yields a theme with the same tables,
\* keys and key order, every placeholder leaf replaced by a scalar, a list or
\* null, every literal leaf unchanged.
C1_SameShape ==
  (Substituted \/ raised = "substitute") =>
     /\ ~IsErr(processed_theme)
     /\ SameShape(heap[theme], processed_theme)

\* C2: materialization never fails because of a placeholder, whatever the type
\* of the bound values.
C2_NeverFails == raised # "substitute"

\* The leaf is "$p..XX": one candidate that ends with an alpha token.
AlphaLeaf(l) ==
  /\ IsPlaceholder(l) /\ ~HasChar(l.v, ",")
  /\ Len(l.v) >= 6 /\ AlphaIndex(l.v) = Len(l.v) - 3
  /\ AlphaIndex(SubSeq(l.v, 1, Len(l.v) - 4)) = 0

\* What p resolves to, directly or through a chain of $-references.
ChainValue(p) == FollowRefs(WalkPath(p, toml_data), toml_data, MaxDepth)

\* C3: for a placeholder $p..XX, when p resolves (directly or through a chain
\* of $-references) to a non-empty string s without alpha token the result is
\* s followed by XX, and when p is unresolved the result is null: both for
\* resolve_variable and, when s holds no further placeholder, for the leaf.
C3_AlphaSuffix ==
  toml_data # Null =>
    \A i \in 1..Len(template_file.v) :
      LET l == template_file.v[i].val
          k == template_file.v[i].k
          name == Tail(l.v)
          p == SubSeq(l.v, 2, Len(l.v) - 4)
          XX == SubSeq(l.v, Len(l.v) - 1, Len(l.v))
          s == ChainValue(p)
          written == Substituted /\ HasKey(heap[theme], k)
      IN AlphaLeaf(l) =>
           /\ (IsStr(s) /\ s.v # <<>> /\ AlphaIndex(s.v) = 0) =>
                /\ ResolveVariable(name, toml_data) = Str(s.v \o XX)
                /\ (written /\ PlainScalar(s)) => Get(processed_theme, k) = Str(s.v \o XX)
           /\ s = Null =>
                /\ ResolveVariable(name, toml_data) = Null
                /\ written => Get(processed_theme, k) = Null

\* C3 witness: $x..7f where x refers to y, and y is a colour.
C3_Witness ==
  /\ Substituted
  /\ Get(template_file, <<"a">>) = Str(<<"$", "x", ".", ".", "7", "f">>)
  /\ Lookup(toml_data, <<"x">>) = Str(<<"$", "y">>)
  /\ Lookup(toml_data, <<"y">>) = Hex3
  /\ Get(processed_theme, <<"a">>) = Str(Hex3.v \o <<"7", "f">>)

\* The candidate is passed over: null or a boolean.
PassedOver(v) == v.t \in {"null", "bool"}
\* The candidate is passed over: null, a boolean or a table.
PassedOverOrTable(v) == v.t \in {"null", "bool", "dict"}

\* The first candidate that is not passed over, or 0.
FirstUsable(cs, Over(_)) ==
  LET C == {i \in 1..Len(cs) : ~Over(ResolveVariable(cs[i], toml_data))}
  IN IF C = {} THEN 0 ELSE MinOf(C)

\* What a leaf holding only the candidate c is materialized to.
SingleValue(c) ==
  LET r == Materialize(Dict(<<KV(<<"a">>, Str(<<"$">> \o c))>>), toml_data)
  IN IF IsErr(r) THEN r ELSE Get(r, <<"a">>)

\* The value the chosen candidate stands for: itself, or for a list or a
\* string that holds placeholders what it is materialized to.
ChosenValue(c) ==
  LET v == ResolveVariable(c, toml_data)
  IN IF IsList(v) \/ (IsStr(v) /\ HasChar(v.v, "$")) THEN SingleValue(c) ELSE v

\* Every placeholder leaf of the theme holds its first usable candidate.
FirstCandidateWins(Over(_)) ==
  Substituted =>
    \A i \in 1..Len(heap[theme].v) :
      LET l == heap[theme].v[i].val
          k == heap[theme].v[i].k
          cs == CandNames(l)
          j == FirstUsable(cs, Over)
      IN IsPlaceholder(l) =>
           Get(processed_theme, k) = IF j = 0 THEN Null ELSE ChosenValue(cs[j])

C5_ParentLastResort ==
  Substituted =>
    \A i \in 1..Len(heap[theme].v) :
      LET l == heap[theme].v[i].val
          k == heap[theme].v[i].k
          cs == CandNames(l)
          last == cs[Len(cs)]
          parent == WalkPath(Split(last, ".")[1], toml_data)
      IN (/\ IsPlaceholder(l)
          /\ FirstUsable(cs, PassedOverOrTable) = 0
          /\ HasChar(last, ".") /\ AlphaIndex(last) = 0
          /\ PlainScalar(parent))
         => Get(processed_theme, k) = parent

RECURSIVE NoBoolean(_)
\* No leaf of x is a boolean.
NoBoolean(x) ==
  IF IsDict(x) THEN \A i \in 1..Len(x.v) : NoBoolean(x.v[i].val)
  ELSE IF IsList(x) THEN \A i \in 1..Len(x.v) : NoBoolean(x.v[i])
  ELSE x.t # "bool"

\* C6: a boolean binding never propagates into a theme value, in templates and
\* in override values alike: a template without boolean leaves gives themes
\* without boolean leaves.
C6_NoBooleanPropagates ==
  (pc = "append" /\ NoBoolean(template_file)) => NoBoolean(processed_theme)

\* The only override section of the binding document is "overrides".
OnlyDirectOverrides ==
  /\ HasKey(toml_data, K_overrides)
  /\ \A sec \in {K_overrides_regex, K_syntax_overrides, K_syntax_overrides_regex,
                 K_stlye_overrides, K_style_overrides, K_style_overrides_regex,
                 K_deletions} : ~HasKey(toml_data, sec)

\* C7: when a direct override addresses the path of a leaf of the template
\* theme with a literal string v, the final theme has v at that path whatever
\* the placeholder at that leaf resolved to.
C7_DirectOverrideWins ==
  (pc = "append" /\ OnlyDirectOverrides) =>
    \A i \in 1..Len(Get(toml_data, K_overrides).v) :
      LET key == Get(toml_data, K_overrides).v[i].k
          v == Get(toml_data, K_overrides).v[i].val
          path == ParseFullKey(key).keys
      IN (PlainScalar(v) /\ IsStr(v) /\ HasPath(template_file, path))
         => GetAt(processed_theme, path) = v

\* The key is prefix.<segment> with a non-empty segment without dot.
OneFurtherSegment(prefix, key) ==
  /\ StartsWith(key, prefix \o <<".">>)
  /\ Len(key) > Len(prefix) + 1
  /\ ~HasChar(Tail_(key, Len(prefix) + 2), ".")

\* The key is prefix.<segment> with a segment of word characters.
OneWordSegment(prefix, key) ==
  /\ StartsWith(key, prefix \o <<".">>)
  /\ \A j \in (Len(prefix) + 2)..Len(key) : key[j] \in WordChars

\* The pattern is prefix.* with a prefix without star.
PrefixStar(pat) ==
  /\ Len(pat) > 2 /\ EndsWith(pat, <<".", "*">>)
  /\ ~HasChar(SubSeq(pat, 1, Len(pat) - 2), "*")

\* The syntax table of the template theme.
TemplateSyntax == GetAt(template_file, <<Str(K_style), Str(K_syntax)>>)
\* The syntax table of the theme.
ThemeSyntax == GetAt(processed_theme, <<Str(K_style), Str(K_syntax)>>)

\* syntax-overrides has just been applied to a syntax table of literals, and
\* holds one pattern prefix.* with a string value.
PrefixStarApplied ==
  /\ pc = "syntax_regex"
  /\ HasKey(toml_data, K_syntax_overrides)
  /\ Len(Get(toml_data, K_syntax_overrides).v) = 1
  /\ PrefixStar(Get(toml_data, K_syntax_overrides).v[1].k)
  /\ IsStr(Get(toml_data, K_syntax_overrides).v[1].val)

VariantTheme(template_theme, bindings) ==
  LET toml == Held(bindings, <<>>)
      t0 == ApplyDeletions(template_theme, toml)
      t1 == IF IsErr(t0) THEN t0 ELSE Materialize(t0, toml)
      s2 == IF IsErr(t1) THEN After(t1, toml) ELSE StageDirect(t1, toml)
      s3 == IF IsErr(s2.theme) THEN s2 ELSE StageRegex(s2.theme, s2.toml_data)
      s4 == IF IsErr(s3.theme) THEN s3 ELSE StageSyntax(s3.theme, s3.toml_data)
      s5 == IF IsErr(s4.theme) THEN s4 ELSE StageSyntaxRegex(s4.theme, s4.toml_data)
      s6 == IF IsErr(s5.theme) THEN s5 ELSE StageStyle(s5.theme, s5.toml_data)
      s7 == IF IsErr(s6.theme) THEN s6 ELSE StageStyleRegex(s6.theme, s6.toml_data)
  IN s7.theme

\* C9: the theme of variant k depends only on the template and on binding
\* document k: the template theme in memory stays what the file holds, and
\* every theme produced is the one its own binding document gives for it.
C9_VariantsIndependent ==
  /\ heap.template = template_file
  /\ pc = "append" => processed_theme = VariantTheme(template_file, toml_files[idx])
  /\ \A i \in 1..Len(processed_themes) :
       processed_themes[i] = VariantTheme(template_file, toml_files[i])

\* C9 witness: the first variant deleted the table n, the second one has it.
C9_Witness ==
  /\ pc = "done" /\ Len(processed_themes) = 2
  /\ HasKey(toml_files[1], K_deletions)
  /\ ~HasKey(processed_themes[1], <<"n">>)
  /\ HasKey(processed_themes[2], <<"n">>)
  /\ HasKey(template_file, <<"n">>)

\* The concrete theme being reversed.
FinalTheme == final_themes[MinOf({idx, Len(final_themes)})]

\* The leaves of the template that hold the placeholder $x.
XLeaves == {i \in 1..Len(template_file.v) : template_file.v[i].val = Str(<<"$", "x">>)}

\* $x occupies n >= 1 leaves of the template, the concrete theme holds one
\* string v at all of them and equals the template elsewhere, and the template
\* holds no other placeholder.
UniformX(v) ==
  /\ XLeaves # {}
  /\ IsStr(v) /\ ~HasChar(v.v, "$")
  /\ Keys(FinalTheme) = Keys(template_file)
  /\ \A i \in 1..Len(template_file.v) :
       IF i \in XLeaves THEN FinalTheme.v[i].val = v
       ELSE /\ FinalTheme.v[i].val = template_file.v[i].val
            /\ Dumps(template_file.v[i].val) = ReplaceAll(Dumps(template_file.v[i].val), <<"$">>, <<>>)

\* C10: when $x occupies n leaves of the template and the concrete theme holds
\* the same string v at all of them and equals the template elsewhere,
\* reverse extraction ends without error, gives $x the histogram {v: n} and an
\* empty override map, and the override map is still empty after palette
\* factoring with threshold 0.
C10_UniformHistogram ==
  \A v \in Concretes :
    (final_themes # <<>> /\ UniformX(v)) =>
      /\ raised = ""
      /\ pc = "rev_colors" =>
           /\ HasKey(Data.variables, <<"$", "x">>)
           /\ Get(Data.variables, <<"$", "x">>) = Dict(<<KV(v, Cardinality(XLeaves))>>)
           /\ Data.overrides = Dict(<<>>)
      /\ (pc = "rev_toml" /\ threshold = 0) =>
           /\ Data.overrides = Dict(<<>>)
           /\ sorted_overrides = Dict(<<>>)

(***************************************************************************)
(* Round trip: process_json_template, then reverse_process on its result   *)
(***************************************************************************)
\* Scalars a binding document assigns to x and to y.
XScalars == {Hex3, Num(5), Str(<<"p", "l", "a", "i", "n">>), Str(<<>>)}
YScalars == {Green, Hex3, Num(0)}

\* Templates that use $x and $y at one or more leaves, beside a literal or
\* none, and one binding document that assigns both a scalar.
RoundTripRuns ==
  {[template |-> Leaves3(Str(<<"$", "x">>), b, c, w), tomls |-> <<Doc(x, y, NoSection)>>] :
     b \in {Absent, Str(<<"$", "x">>), Str(<<"$", "y">>)}, c \in {Absent, Str(<<"$", "y">>)},
     w \in {Absent, Str(<<"l", "i", "t">>), Num(700)}, x \in XScalars, y \in YScalars}

InitRoundTrip ==
  /\ \E run \in RoundTripRuns :
       /\ template_file = run.template
       /\ toml_files = run.tomls
       /\ heap = [template |-> run.template, copy |-> Null]
  /\ theme = "template"
  /\ idx = 1
  /\ toml_data = Null
  /\ processed_theme = Null
  /\ processed_themes = <<>>
  /\ raised = ""
  /\ pc = "loop"
  /\ ReverseIdle

\* The themes process_json_template returned are the concrete themes handed to
\* reverse_process, with the same template.
StartReverse ==
  /\ pc = "done" /\ final_themes = <<>> /\ processed_themes # <<>>
  /\ final_themes' = processed_themes
  /\ threshold' \in {0, 1}
  /\ idx' = 1
  /\ pc' = "rev_delete"
  /\ UNCHANGED <<fwdvars, raised, delete, Data, color_counts, sorted_variables,
                 sorted_overrides>>

NextRoundTrip ==
  \/ Next
  \/ StartReverse
  \/ NextReverse

SpecRoundTrip == InitRoundTrip /\ [][NextRoundTrip]_vars

\* The names of the variables the leaves of the template hold as "$name".
UsedVariables ==
  {Tail(template_file.v[i].val.v) : i \in {j \in 1..Len(template_file.v) :
                                            IsPlaceholder(template_file.v[j].val)}}

\* The theme was materialized from the template and is being reversed.
Reversing == final_themes # <<>> /\ toml_files # <<>>

\* C11: when a theme materialized from a template and scalar bindings is
\* reversed against the same template, the run does not fail, and extraction
\* gives every variable the template uses a histogram whose representative is
\* the value the binding document assigns to it.
C11_RoundTrip ==
  Reversing =>
    /\ pc # "crashed"
    /\ pc \in {"rev_colors", "rev_toml"} =>
         \A name \in UsedVariables :
           /\ HasKey(Data.variables, <<"$">> \o name)
           /\ Representative(Get(Data.variables, <<"$">> \o name)) = Get(toml_files[1], name)

\* handle_colors has returned for the concrete theme being reversed.
Factored == pc = "rev_toml"

\* handle_colors called once more by the caller of line 320, with the
\* variables, overrides, var_map and threshold it passed the first time.
SecondCall == HandleColors(Data.variables, Data.overrides, Data.var_map, threshold)

\* C12: a second call of handle_colors with the same variables, overrides,
\* var_map and threshold ends like the first and gives the same assignment of
\* palette names to colours.
C12_PaletteRepeatable ==
  Factored => (SecondCall.err = "" /\ SecondCall.color_counts = color_counts)

RECURSIVE SumSeq(_)
SumSeq(ns) == IF ns = <<>> THEN 0 ELSE ns[1] + SumSeq(Tail(ns))

\* The value is a colour whose canonical base colour is c.
HasBase(value, c) == ~Falsy(value) /\ IsHexColor(value) /\ GetBaseColor(value) = Str(c)

\* The frequency of the base colour c: the counts of the histogram entries
\* with that base, plus one for every colour override with that base.
Frequency(c) ==
  SumSeq([i \in 1..Len(Data.variables.v) |->
            LET h == Data.variables.v[i].val.v
            IN SumSeq([j \in 1..Len(h) |-> IF HasBase(h[j].k, c) THEN h[j].val ELSE 0])])
  + Cardinality({i \in 1..Len(Data.overrides.v) : HasBase(Data.overrides.v[i].val, c)})

\* The colours in the order they are met: histogram entries, then overrides.
SeenValues ==
  LET RECURSIVE Flat(_)
      Flat(vs) == IF vs = <<>> THEN <<>>
                  ELSE [j \in 1..Len(vs[1].val.v) |-> vs[1].val.v[j].k] \o Flat(Tail(vs))
  IN SelectSeq(Flat(Data.variables.v)
               \o [i \in 1..Len(Data.overrides.v) |-> Data.overrides.v[i].val],
               LAMBDA v : ~Falsy(v) /\ IsHexColor(v))

\* The base colours met.
SeenColors == {GetBaseColor(SeenValues[i]).v : i \in 1..Len(SeenValues)}

\* Where the base colour c is met first.
FirstSeen(c) == MinOf({i \in 1..Len(SeenValues) : GetBaseColor(SeenValues[i]) = Str(c)})

\* C13: the palette holds exactly the base colours whose frequency is greater
\* than the threshold, named color1, color2, ... without gap in the order of
\* descending frequency, colours of equal frequency in the order they were
\* first seen, and no two colours share a name.
C13_PaletteByFrequency ==
  Factored =>
    /\ KeySet(color_counts) = {c \in SeenColors : Frequency(c) > threshold}
    /\ \A i \in 1..Len(color_counts.v) : color_counts.v[i].val = Str(ColorName(i))
    /\ \A i, j \in 1..Len(color_counts.v) :
         i < j =>
           LET ci == color_counts.v[i].k
               cj == color_counts.v[j].k
           IN /\ ci # cj
              /\ Frequency(ci) >= Frequency(cj)
              /\ Frequency(ci) = Frequency(cj) => FirstSeen(ci) < FirstSeen(cj)

\* The paths of deletions.keys that are keys of the section overrides with a
\* literal string as value.
DeletedAndOverridden ==
  LET keys == Lookup(Lookup(toml_data, K_deletions), K_keys)
      overrides == Lookup(toml_data, K_overrides)
  IN IF IsList(keys) /\ IsDict(overrides)
     THEN {keys.v[i].v : i \in {j \in 1..Len(keys.v) :
                                  /\ IsStr(keys.v[j]) /\ HasKey(overrides, keys.v[j].v)
                                  /\ IsStr(Get(overrides, keys.v[j].v))
                                  /\ PlainScalar(Get(overrides, keys.v[j].v))}}
     ELSE {}

\* The top-level keys that have a direct override and, under the same name, a
\* regex override with a non-empty literal string as value.
DirectAndRegex ==
  LET overrides == Lookup(toml_data, K_overrides)
      regex == Lookup(toml_data, K_overrides_regex)
  IN IF IsDict(overrides) /\ IsDict(regex)
     THEN {k \in KeySet(overrides) \cap KeySet(regex) :
             /\ \A i \in 1..Len(k) : k[i] \in AlnumChars
             /\ IsStr(Get(regex, k)) /\ Get(regex, k).v # <<>> /\ PlainScalar(Get(regex, k))}
     ELSE {}

\* C14: the patches of a variant are applied in the order deletions, direct
\* overrides, regex overrides: a path that is deleted and directly overridden
\* holds the override value after the direct overrides and is present in the
\* theme of the variant, and a top-level key with a direct and a regex
\* override holds the value of the regex override.
C14_FixedOrder ==
  /\ pc \in {"regex", "append"} =>
       \A k \in DeletedAndOverridden :
         LET path == ParseFullKey(k).keys
         IN /\ HasPath(processed_theme, path)
            /\ (pc = "regex" \/ DirectAndRegex = {}) =>
                 GetAt(processed_theme, path) = Get(Get(toml_data, K_overrides), k)
  /\ pc \in {"syntax", "append"} =>
       \A k \in DirectAndRegex :
         Get(processed_theme, k) = Get(Get(toml_data, K_overrides_regex), k)

\* C14 witness: a is deleted, set to one colour by a direct override and to
\* another by a regex override; the theme of the variant holds the latter.
C14_Witness ==
  /\ pc = "append"
  /\ HasKey(template_file, <<"a">>)
  /\ <<"a">> \in DeletedAndOverridden /\ <<"a">> \in DirectAndRegex
  /\ Get(Get(toml_data, K_overrides), <<"a">>) = Green
  /\ Get(processed_theme, <<"a">>) = Hex2

\* The direct overrides have just been applied.
DirectApplied == pc = "regex" /\ HasKey(toml_data, K_overrides)

\* C15: a direct override whose value is false sets the key it addresses to
\* null, whether the override key is a single segment or a dotted path.
C15_FalseIsNull ==
  DirectApplied =>
    \A i \in 1..Len(Get(toml_data, K_overrides).v) :
      LET e == Get(toml_data, K_overrides).v[i]
          path == ParseFullKey(e.k).keys
      IN e.val = Bool(FALSE) =>
           (HasPath(processed_theme, path) /\ GetAt(processed_theme, path) = Null)

RECURSIVE PathExists(_, _)
\* The theme holds something at the path: a key of a table, an index of a list.
PathExists(x, path) ==
  IF path = <<>> THEN TRUE
  ELSE IF IsDict(x)
       THEN /\ path[1].t = "str" /\ HasKey(x, path[1].v)
            /\ PathExists(Get(x, path[1].v), Tail(path))
  ELSE IF IsList(x)
       THEN /\ path[1].t = "num" /\ path[1].v < Len(x.v)
            /\ PathExists(x.v[path[1].v + 1], Tail(path))
  ELSE FALSE

\* The theme the direct overrides were applied to.
BeforeOverrides == Materialize(heap[theme], toml_data)

\* The direct overrides have run: they returned or raised.
DirectRan == (pc = "regex" \/ raised = "direct") /\ HasKey(toml_data, K_overrides)

\* C16: a direct override of a path the theme does not hold ends without
\* error; every container on the path that did not exist is a sequence when
\* the next segment is numeric and a table otherwise, an existing sequence is
\* extended up to the index, and the value is stored at the final segment.
C16_CreatesContainers ==
  DirectRan =>
    \A i \in 1..Len(Get(toml_data, K_overrides).v) :
      LET e == Get(toml_data, K_overrides).v[i]
          p == ParseFullKey(e.k)
      IN (/\ Len(Get(toml_data, K_overrides).v) = 1
          /\ IsStr(e.val) /\ PlainScalar(e.val)
          /\ p.ok /\ ~PathExists(BeforeOverrides, p.keys))
         => /\ ~IsErr(processed_theme)
            /\ PathExists(processed_theme, p.keys)
            /\ GetAt(processed_theme, p.keys) = e.val
            /\ \A n \in 1..(Len(p.keys) - 1) :
                 ~PathExists(BeforeOverrides, SubSeq(p.keys, 1, n)) =>
                   GetAt(processed_theme, SubSeq(p.keys, 1, n)).t
                     = IF p.keys[n + 1].t = "num" THEN "list" ELSE "dict"

\* C17: after a direct override of a path p the theme holds, with value v, the
\* theme holds v at p (null when v is false) whatever it held there before,
\* and is unchanged everywhere else.
C17_SetsPath ==
  DirectRan =>
    \A i \in 1..Len(Get(toml_data, K_overrides).v) :
      LET e == Get(toml_data, K_overrides).v[i]
          p == ParseFullKey(e.k)
          v == IF e.val = Bool(FALSE) THEN Null ELSE e.val
      IN (/\ Len(Get(toml_data, K_overrides).v) = 1
          /\ e.val = Bool(FALSE) \/ (IsStr(e.val) /\ PlainScalar(e.val))
          /\ p.ok /\ ~IsErr(BeforeOverrides) /\ PathExists(BeforeOverrides, p.keys))
         => /\ ~IsErr(processed_theme)
            /\ GetAt(processed_theme, p.keys) = v
            /\ processed_theme = SetAt(BeforeOverrides, p.keys, v)

\* syntax-overrides, holding one pattern with a literal value, has run on a
\* syntax table of literals: it returned or raised.
WildcardRan ==
  /\ pc = "syntax_regex" \/ raised = "syntax"
  /\ HasKey(toml_data, K_syntax_overrides)
  /\ Len(Get(toml_data, K_syntax_overrides).v) = 1
  /\ LET v == Get(toml_data, K_syntax_overrides).v[1].val
     IN ~(IsStr(v) /\ HasChar(v.v, "$"))

\* What the claim gives a matched key that held old when the override is v.
MergedOrKept(old, v) ==
  IF IsDict(v) THEN (IF IsDict(old) THEN UpdateDict(old, v.v) ELSE old)
  ELSE IF IsList(v) THEN old
  ELSE IF old.t # v.t THEN (IF Falsy(old) THEN v ELSE old)
  ELSE v

\* C18: for every key a wildcard override matches, a table value is merged
\* into the value the key holds, a list value leaves the key as it is, a value
\* of another type than the key's leaves it as it is unless the key holds null
\* or an empty value, which is replaced; no error is raised.
C18_WildcardTypes ==
  WildcardRan =>
    LET pat == Get(toml_data, K_syntax_overrides).v[1].k
        v == Get(toml_data, K_syntax_overrides).v[1].val
    IN /\ ~IsErr(processed_theme)
       /\ Keys(ThemeSyntax) = Keys(TemplateSyntax)
       /\ \A i \in 1..Len(TemplateSyntax.v) :
            ThemeSyntax.v[i].val =
              IF MatchWildcard(pat, TemplateSyntax.v[i].k)
              THEN MergedOrKept(TemplateSyntax.v[i].val, v)
              ELSE TemplateSyntax.v[i].val

\* The deletions, one path in a list, have run on the copy of the template:
\* the loop ended or raised.
DeletionsRan ==
  /\ pc = "substitute" \/ raised = "deletions"
  /\ IsList(Lookup(Lookup(toml_data, K_deletions), K_keys))
  /\ Len(Get(Get(toml_data, K_deletions), K_keys).v) = 1
  /\ IsStr(Get(Get(toml_data, K_deletions), K_keys).v[1])
  /\ ParseFullKey(Get(Get(toml_data, K_deletions), K_keys).v[1].v).ok

\* The segments of the one deletion path.
DeletionPath == ParseFullKey(Get(Get(toml_data, K_deletions), K_keys).v[1].v).keys

\* A container before the final segment of path is absent from x.
AbsentIntermediate(x, path) ==
  \E n \in 1..(Len(path) - 1) : ~PathExists(x, SubSeq(path, 1, n))

\* C19: a deletion whose path names an intermediate container the theme does
\* not hold is skipped: no error is raised and the theme keeps every key, in
\* particular a key with the final name in an enclosing table.
C19_AbsentSkipped ==
  (DeletionsRan /\ AbsentIntermediate(heap.template, DeletionPath)) =>
    /\ raised = ""
    /\ heap[theme] = heap.template

\* The final segment of path addresses a key of a table x holds.
AddressesKey(x, path) ==
  /\ PathExists(x, path)
  /\ IsDict(GetAt(x, SubSeq(path, 1, Len(path) - 1)))

\* C20: a deletion path is parsed as a direct override path is, a bracketed
\* segment being one key and a numeric segment a list index, and the deletion
\* removes exactly the key the path addresses.
C20_DeletesAddressed ==
  (DeletionsRan /\ AddressesKey(heap.template, DeletionPath)) =>
    /\ raised = ""
    /\ heap[theme] = DelAt(heap.template, DeletionPath)

\* full_key holds a dot and cannot be parsed into segments.
Malformed(full_key) == HasChar(full_key, ".") /\ ~ParseFullKey(full_key).ok

\* The entries of a table whose key can be parsed.
RECURSIVE WellFormedEntries(_)
WellFormedEntries(items) ==
  IF items = <<>> THEN <<>>
  ELSE (IF Malformed(items[1].k) THEN <<>> ELSE <<items[1]>>) \o WellFormedEntries(Tail(items))

\* The strings of a list that can be parsed.
RECURSIVE WellFormedKeys(_)
WellFormedKeys(full_keys) ==
  IF full_keys = <<>> THEN <<>>
  ELSE (IF Malformed(full_keys[1].v) THEN <<>> ELSE <<full_keys[1]>>)
       \o WellFormedKeys(Tail(full_keys))

\* The direct overrides ran with an entry whose path cannot be parsed.
MalformedOverrideRan ==
  /\ pc = "regex" \/ raised = "direct"
  /\ IsDict(Lookup(toml_data, K_overrides))
  /\ \E i \in 1..Len(Get(toml_data, K_overrides).v) :
       Malformed(Get(toml_data, K_overrides).v[i].k)

\* The deletions ran with a list holding a path that cannot be parsed.
MalformedDeletionRan ==
  /\ pc = "substitute" \/ raised = "deletions"
  /\ IsList(Lookup(Lookup(toml_data, K_deletions), K_keys))
  /\ \A i \in 1..Len(Get(Get(toml_data, K_deletions), K_keys).v) :
       IsStr(Get(Get(toml_data, K_deletions), K_keys).v[i])
  /\ \E i \in 1..Len(Get(Get(toml_data, K_deletions), K_keys).v) :
       Malformed(Get(Get(toml_data, K_deletions), K_keys).v[i].v)

\* C21: an override or deletion path that cannot be parsed raises no
\* exception and leaves the theme as it is, and the other entries of the
\* section are applied: the theme is the one the well-formed entries give.
C21_MalformedSkipped ==
  /\ MalformedOverrideRan =>
       /\ raised = ""
       /\ processed_theme =
            ApplyDirectOverrides(BeforeOverrides, toml_data,
                                 Dict(WellFormedEntries(Get(toml_data, K_overrides).v))).theme
  /\ MalformedDeletionRan =>
       /\ raised = ""
       /\ heap[theme] =
            DeleteKeys(heap.template,
                       WellFormedKeys(Get(Get(toml_data, K_deletions), K_keys).v))

\* The text of a binding value refers to the top-level binding name.
RefersTo(value, name) ==
  \/ IsStr(value) /\ FindFrom(value.v, <<"$">> \o name, 1) # 0
  \/ IsList(value) /\ \E i \in 1..Len(value.v) :
       IsStr(value.v[i]) /\ FindFrom(value.v[i].v, <<"$">> \o name, 1) # 0

RECURSIVE Reaches(_, _, _)
\* Binding from reaches binding to along at most n $-references.
Reaches(from, to, n) ==
  /\ n > 0
  /\ \/ RefersTo(Get(toml_data, from), to)
     \/ \E k \in KeySet(toml_data) :
          RefersTo(Get(toml_data, from), k) /\ Reaches(k, to, n - 1)

\* The $-references between the binding values form a cycle.
Cyclic == \E k \in KeySet(toml_data) : Reaches(k, k, Len(toml_data.v))

\* The template substitution has run: it returned or raised.
SubstituteRan == pc = "direct" \/ raised = "substitute"

\* C22: when the $-references between the binding values form no cycle, the
\* resolution of every placeholder of the template ends and gives a value or
\* null: the substitution returns a theme.
C22_AcyclicResolves ==
  (SubstituteRan /\ ~Cyclic) =>
    SubstituteVariables(Dumps(heap[theme]), toml_data, FALSE, TRUE, MaxDepth).err = ""

\* Resolution that does not end is met with cyclic bindings only.
NoTerminationOnlyCyclic ==
  (SubstituteRan /\ IsErr(processed_theme)
     /\ processed_theme.v \in {"NoTermination", "RecursionError"}) => Cyclic

\* extract_variables has returned for the concrete theme.
Extracted == pc = "rev_colors"

\* The top-level leaves of the template that hold a fallback chain, the
\* concrete theme holding a string there.
ChainLeaves ==
  {i \in 1..Len(template_file.v) :
     /\ IsStr(template_file.v[i].val)
     /\ Len(FindVars(template_file.v[i].val.v, 1)) > 1
     /\ HasKey(FinalTheme, template_file.v[i].k)
     /\ IsStr(Get(FinalTheme, template_file.v[i].k))}

\* C23: the value the concrete theme holds at a fallback-chain leaf is in the
\* histogram of every variable named in the chain.
C23_ChainCredit ==
  Extracted =>
    \A i \in ChainLeaves :
      LET names == FindVars(template_file.v[i].val.v, 1)
          v == Get(FinalTheme, template_file.v[i].k)
      IN \A j \in 1..Len(names) :
           /\ HasKey(Data.variables, names[j].v)
           /\ HistIndex(Get(Data.variables, names[j].v), v) # 0

\* extract_variables has run on the concrete theme: it returned or raised.
ExtractRan == pc = "rev_colors" \/ raised = "extract_variables"

\* A literal of a template: a string without placeholder, a number, a boolean.
IsLiteral(x) == (IsStr(x) /\ ~HasChar(x.v, "$")) \/ x.t \in {"num", "bool"}

\* The top-level leaves where the template holds a literal and the concrete
\* theme another scalar value.
ChangedLiterals ==
  {i \in 1..Len(template_file.v) :
     /\ IsLiteral(template_file.v[i].val)
     /\ HasKey(FinalTheme, template_file.v[i].k)
     /\ Get(FinalTheme, template_file.v[i].k).t \in {"str", "num", "bool"}
     /\ ~PyEq(Get(FinalTheme, template_file.v[i].k), template_file.v[i].val)}

\* C24: when the template holds a literal at a path and the concrete theme
\* another value, reverse extraction ends without error and the override map
\* holds the concrete value at that path.
C24_LiteralOverride ==
  (ExtractRan /\ ChangedLiterals # {}) =>
    /\ raised = ""
    /\ \A i \in ChangedLiterals :
         /\ HasKey(Data.overrides, template_file.v[i].k)
         /\ Get(Data.overrides, template_file.v[i].k) = Get(FinalTheme, template_file.v[i].k)

\* The path extract synthesizes for key under current_prefix (lines 412-413).
SynthPath(current_prefix, key) ==
  IF current_prefix = <<>> THEN key ELSE current_prefix \o <<".">> \o StringKey(key)

\* The keys of the concrete table final_partial without counterpart in the
\* template table templ_partial, as pairs of synthesized path and value.
Strays(templ_partial, final_partial, current_prefix) ==
  {[path |-> SynthPath(current_prefix, final_partial.v[i].k), val |-> final_partial.v[i].val] :
     i \in {j \in 1..Len(final_partial.v) : ~HasKey(templ_partial, final_partial.v[j].k)}}

\* The keys of the concrete theme without counterpart in the template, at the
\* top level and in the tables both hold.
AllStrays ==
  Strays(template_file, FinalTheme, <<>>)
  \cup UNION {Strays(template_file.v[i].val, Get(FinalTheme, template_file.v[i].k),
                     template_file.v[i].k) :
                i \in {j \in 1..Len(template_file.v) :
                         /\ IsDict(template_file.v[j].val)
                         /\ HasKey(FinalTheme, template_file.v[j].k)
                         /\ IsDict(Get(FinalTheme, template_file.v[j].k))}}

\* The override map holds value at path.
Overridden(path, value) ==
  HasKey(Data.overrides, path) /\ Get(Data.overrides, path) = value

\* C25: a key of the concrete theme without counterpart in the template does
\* not abort reverse extraction and is not lost: after the second pass a
\* non-null scalar is in the override map at the path of the key, and every
\* non-null entry of a table or list is in the override map at path.key or
\* path.index.
C25_StrayKept ==
  (ExtractRan /\ IsDict(template_file) /\ final_themes # <<>> /\ AllStrays # {}) =>
    /\ raised = ""
    /\ \A s \in AllStrays :
         CASE s.val.t = "dict" ->
                \A i \in 1..Len(s.val.v) :
                  s.val.v[i].val # Null =>
                    Overridden(s.path \o <<".">> \o StringKey(s.val.v[i].k), s.val.v[i].val)
           [] s.val.t = "list" ->
                \A i \in 1..Len(s.val.v) :
                  s.val.v[i] # Null =>
                    Overridden(s.path \o <<".">> \o NatToText(i - 1), s.val.v[i])
           [] s.val.t = "null" -> TRUE
           [] OTHER -> Overridden(s.path, s.val)

\* Table n of the concrete theme holds a table at a key the template does not
\* have; its entries are overrides at n.z.k and n.z.[k.d].
StrayTableFlattened ==
  /\ pc = "rev_colors"
  /\ \E s \in AllStrays : s.path = <<"n", ".", "z">> /\ IsDict(s.val) /\ s.val.v # <<>>
  /\ Overridden(<<"n", ".", "z", ".", "k">>, Str(<<"l", "i", "t">>))
  /\ Overridden(<<"n", ".", "z", ".", "[", "k", ".", "d", "]">>, Hex1)
  /\ ~HasKey(Data.overrides, <<"n", ".", "z", ".", "e">>)

\* "#" followed by exactly 3, 6 or 8 hexadecimal digits.
StrictHex(value) ==
  /\ IsStr(value) /\ Len(value.v) \in {4, 7, 9} /\ value.v[1] = "#"
  /\ \A i \in 2..Len(value.v) : value.v[i] \in HexChars

\* The values at the top-level leaves of the concrete theme.
FinalValues == {FinalTheme.v[i].val : i \in 1..Len(FinalTheme.v)}

\* C26: a value is classified as a colour exactly when it is "#" followed by
\* 3, 6 or 8 hexadecimal digits and nothing else, so the length assertion of
\* get_base_color holds for every value classified as a colour.
C26_StrictColor ==
  (final_themes # <<>> /\ pc \in {"rev_extract", "rev_colors", "rev_toml", "crashed"}) =>
    /\ \A v \in FinalValues :
         /\ IsHexColor(v) <=> StrictHex(v)
         /\ IsHexColor(v) => ~IsErr(GetBaseColor(v))
    /\ ~(raised = "handle_colors" /\ Data.err = "AssertionError")

\* The overrides as the cleanup pass of the coming call of handle_colors
\* leaves them: those extraction supplied and those the pass adds.
OverridesAfterCleanup ==
  CleanupVariables(Data.var_map, SortedVariables(Data.variables), Data.overrides)

\* The sum of the histogram counts of the values with base colour c, plus one
\* for every colour override with that base.
FrequencyOf(variables, overrides, c) ==
  SumSeq([i \in 1..Len(variables.v) |->
            LET h == variables.v[i].val.v
            IN SumSeq([j \in 1..Len(h) |-> IF HasBase(h[j].k, c) THEN h[j].val ELSE 0])])
  + Cardinality({i \in 1..Len(overrides.v) : HasBase(overrides.v[i].val, c)})

\* C27: the count handle_colors holds for a base colour when it builds the
\* palette is the sum of the histogram counts of the values with that base
\* plus one for every colour override with that base, whether extraction
\* supplied the override or the cleanup pass added it.
C27_FrequencyOnce ==
  (pc = "rev_colors"
   /\ ~IsErr(ColorCounter(Data.variables, Data.overrides, Data.var_map))) =>
    \A c \in KeySet(ColorCounter(Data.variables, Data.overrides, Data.var_map)) :
      Get(ColorCounter(Data.variables, Data.overrides, Data.var_map), c)
        = FrequencyOf(Data.variables, OverridesAfterCleanup.overrides, c)

\* The representative value of the variable: the one handle_colors keeps.
RepresentativeOf(var_name) == Representative(Get(Data.variables, var_name.v))

\* C28: after the cleanup pass every path of a variable whose base colour
\* differs from the representative's is in the override map, and every path
\* that is still bound to the variable and agrees with the representative on
\* the base colour carries the alpha of the representative.
C28_CleanupAlpha ==
  Factored =>
    \A i \in {n \in 1..Len(Data.var_map.v) :
                /\ IsStr(Data.var_map.v[n].k)
                /\ HasKey(Data.variables, Data.var_map.v[n].k.v)} :
      LET var_name == Data.var_map.v[i].k
          paths == Data.var_map.v[i].val.v
          rep == RepresentativeOf(var_name)
      IN \A j \in 1..Len(paths) :
           /\ BaseOrSelf(paths[j].val) # BaseOrSelf(rep) => HasKey(Data.overrides, paths[j].k)
           /\ (BaseOrSelf(paths[j].val) = BaseOrSelf(rep) /\ IsHexColor(paths[j].val))
                => GetAlpha(paths[j].val) = GetAlpha(rep)

RECURSIVE SameKeys(_, _)
\* Every table of the tree before that is still a table after has the keys
\* it had.
SameKeys(before, after) ==
  IF IsDict(before) /\ IsDict(after)
  THEN /\ Keys(after) = Keys(before)
       /\ \A i \in 1..Len(before.v) : SameKeys(before.v[i].val, after.v[i].val)
  ELSE IF IsList(before) /\ IsList(after) /\ Len(before.v) = Len(after.v)
       THEN \A i \in 1..Len(before.v) : SameKeys(before.v[i], after.v[i])
  ELSE TRUE

\* The patterns of a section of the binding document.
PatternsOf(section) ==
  IF HasKey(toml_data, section) /\ IsDict(Get(toml_data, section))
  THEN KeySet(Get(toml_data, section)) ELSE {}

\* The table after has the keys of the table before, and every key that no
\* pattern of the section matches has the value it had.
Framed(before, after, section, Matches(_, _)) ==
  /\ Keys(after) = Keys(before)
  /\ \A i \in 1..Len(before.v) :
       (\A pattern \in PatternsOf(section) : ~Matches(pattern, before.v[i].k))
         => after.v[i] = before.v[i]

\* The step is the stage at, on the table at path, and ends without exception.
StageOn(at, path) ==
  /\ pc = at /\ ~IsErr(processed_theme')
  /\ HasPath(processed_theme, path) /\ HasPath(processed_theme', path)

\* C29: a wildcard or regex override stage leaves the key set of its target
\* table as it was and leaves the value of every key that matches no pattern
\* of its section.
C29_KeySetFrame ==
  [][/\ StageOn("regex", <<>>)
          => Framed(processed_theme, processed_theme', K_overrides_regex, ReMatch)
     /\ StageOn("syntax", <<Str(K_style), Str(K_syntax)>>)
          => Framed(ThemeSyntax, ThemeSyntax', K_syntax_overrides, MatchWildcard)
     /\ StageOn("syntax_regex", <<Str(K_style), Str(K_syntax)>>)
          => Framed(ThemeSyntax, ThemeSyntax', K_syntax_overrides_regex, ReMatch)
     /\ StageOn("style", <<Str(K_style)>>)
          => Framed(GetAt(processed_theme, <<Str(K_style)>>),
                    GetAt(processed_theme', <<Str(K_style)>>), K_style_overrides, MatchWildcard)
     /\ StageOn("style_regex", <<Str(K_style)>>)
          => Framed(GetAt(processed_theme, <<Str(K_style)>>),
                    GetAt(processed_theme', <<Str(K_style)>>), K_style_overrides_regex, ReMatch)]_vars

\* The last part of C29, only direct overrides and deletions change the key
\* set: the substitution stage leaves the keys of every table as they were.
SubstitutionKeepsKeys ==
  [][(pc = "substitute" /\ ~IsErr(processed_theme'))
       => SameKeys(heap[theme], processed_theme')]_vars

\* The override stages keep the keys of their target table.
OverrideStagesKeepKeys ==
  [][\A at \in {"regex", "syntax", "syntax_regex", "style", "style_regex"} :
       LET path == CASE at = "regex" -> <<>>
                     [] at \in {"syntax", "syntax_regex"} -> <<Str(K_style), Str(K_syntax)>>
                     [] OTHER -> <<Str(K_style)>>
       IN StageOn(at, path)
            => Keys(GetAt(processed_theme', path)) = Keys(GetAt(processed_theme, path))]_vars

RECURSIVE LeafPaths(_, _, _)
\* The paths extract synthesizes for the leaves of the concrete table
\* final_partial, in the order it visits them: a table is entered where the
\* template holds a table too, a list is entered where it holds a list.
LeafPaths(templ_partial, final_partial, current_prefix) ==
  LET RECURSIVE From(_)
      From(i) ==
        IF i > Len(final_partial.v) THEN <<>>
        ELSE
          LET key == final_partial.v[i].k
              value == final_partial.v[i].val
              templ == TemplGet(templ_partial, key)
              full_key == SynthPath(current_prefix, key)
              here ==
                IF IsDict(value) /\ IsDict(templ) THEN LeafPaths(templ, value, full_key)
                ELSE IF IsList(value) /\ IsList(templ)
                     THEN [n \in 1..Len(value.v) |-> full_key \o <<".">> \o NatToText(n - 1)]
                ELSE <<full_key>>
          IN here \o From(i + 1)
  IN From(1)

\* C30: no two leaves of the concrete theme receive the same synthesized path,
\* and extraction raises neither "already exists in var_map" nor "already
\* exists in overrides".
C30_UniquePaths ==
  (final_themes # <<>> /\ ExtractRan) =>
    LET paths == LeafPaths(template_file, FinalTheme, <<>>)
    IN /\ \A i, j \in 1..Len(paths) : i # j => paths[i] # paths[j]
       /\ ~(raised = "extract_variables" /\ Data.err = "ValueError")

====
